---- MODULE Spec2Model ----
(***************************************************************************)
(* A model of the pepper editor kernel.                                    *)
(*                                                                         *)
(*   SpecServer   the platform event loop (platforms/bsd.rs run_server,    *)
(*                platforms/unix_utils.rs write_to_connection)             *)
(*   SpecCommand  the command dispatcher (command.rs, command/builtin.rs)  *)
(*   SpecView     multi-cursor edits of a buffer view (buffer_view.rs)     *)
(*                                                                         *)
(* Each specification moves only its own group of variables; the other     *)
(* groups stay at their parked values.                                     *)
(***************************************************************************)
EXTENDS Integers, Sequences, FiniteSets, TLC

\* ---------------------------------------------------------------- bounds
MAX_CLIENT_COUNT == 2
MAX_PROCESS_COUNT == 1
MaxConns == 3
WriterConns == 2
MaxBufs == 2
BufLen == 2
SpawnerConns == 1
MaxSpawns == 2
MaxOutputs == 1
MaxBatch == 2
MaxRequests == 2

VARIABLES
    \* run_server locals
    pc, timeout, previous_timeout, need_redraw, events, triggered, requests,
    client_connections, client_write_queue, processes, kqueue,
    \* what the environment and the pool have seen
    budget, next_conn, next_buf, next_tag, sent, requested, released, emitted,
    tick, last

serverVars == <<pc, timeout, previous_timeout, need_redraw, events, triggered,
                requests, client_connections, client_write_queue, processes,
                kqueue, budget, next_conn, next_buf, next_tag, sent, requested,
                released, emitted, tick, last>>

VARIABLES
    \* the editor as the command dispatcher sees it
    buffers, buffer_views, clients, status_bar, flow, evaluated

commandVars == <<buffers, buffer_views, clients, status_bar, flow, evaluated>>

VARIABLES
    \* a buffer, the views on it, the buffer events not yet seen by the views
    buffer_content, views, pending, edited

viewVars == <<buffer_content, views, pending, edited>>

VARIABLES
    history, history_capacity, offered

historyVars == <<history, history_capacity, offered>>

VARIABLES
    editor_events, enqueued, readable

queueVars == <<editor_events, enqueued, readable>>

VARIABLES
    command_text, expansion_ctx, expanded, tokenizer

textVars == <<command_text, expansion_ctx, expanded, tokenizer>>

VARIABLES
    read_buf, server_event_iter, stream, delivered, produced

lspVars == <<read_buf, server_event_iter, stream, delivered, produced>>

VARIABLES
    edit_buffer, fix_cursors, trail

undoVars == <<edit_buffer, fix_cursors, trail>>

VARIABLES
    editor, session

insertVars == <<editor, session>>

VARIABLES
    next_request_id, pending_requests, rpc

rpcVars == <<next_request_id, pending_requests, rpc>>

VARIABLES
    document, text_edits, applied

editVars == <<document, text_edits, applied>>

VARIABLES
    files, document_changes, workspace

wsVars == <<files, document_changes, workspace>>

VARIABLES
    uri_input, uri_output

uriVars == <<uri_input, uri_output>>

VARIABLES
    client_manager, editor_buffers, editor_buffer_views, client_op

clientVars == <<client_manager, editor_buffers, editor_buffer_views, client_op>>

VARIABLES
    scroll_client, scroll_op

scrollVars == <<scroll_client, scroll_op>>

VARIABLES
    column_cursor, column_move

columnVars == <<column_cursor, column_move>>

VARIABLES
    language

langVars == <<language>>

VARIABLES
    alias_collection, alias_op

aliasVars == <<alias_collection, alias_op>>

VARIABLES
    keymaps, key_match

keymapVars == <<keymaps, key_match>>

vars == <<serverVars, commandVars, viewVars, historyVars, queueVars, textVars, lspVars, undoVars, insertVars, rpcVars, editVars, wsVars, uriVars, clientVars, scrollVars, columnVars, langVars, aliasVars, keymapVars>>

\* ------------------------------------------------------------ utilities
Min(a, b) == IF a < b THEN a ELSE b

Max(a, b) == IF a < b THEN b ELSE a

Range(s) == {s[i] : i \in 1..Len(s)}

IsPrefix(s, t) == Len(s) <= Len(t) /\ SubSeq(t, 1, Len(s)) = s

\* sequences over S of length lo..hi
SeqsOf(S, lo, hi) == UNION {[1..n -> S] : n \in lo..hi}

\* ------------------------------------------------------- the event loop
ClientSlots == 0..(MAX_CLIENT_COUNT - 1)

ProcessSlots == 0..(MAX_PROCESS_COUNT - 1)

CLIENTS_START_INDEX == 1

CLIENTS_LAST_INDEX == CLIENTS_START_INDEX + MAX_CLIENT_COUNT - 1

PROCESSES_START_INDEX == CLIENTS_LAST_INDEX + 1

PROCESSES_LAST_INDEX == PROCESSES_START_INDEX + MAX_PROCESS_COUNT - 1

\* Option<UnixStream>: 0 is None, n > 0 is the n-th accepted connection
NoConnection == 0

\* Option<Process>: tag 0 is None
NONE_PROCESS == [tag |-> 0, stdin |-> FALSE, stdout |-> FALSE]

ListenerFd == 0

ConnFd(c) == c

ProcFd(tag) == 100 + tag

\* a kqueue registration, Event::into_kevent
Kevent(fd, filter, index) == [ident |-> fd, filter |-> filter, index |-> index]

\* the two registrations of a client connection
ClientKevents(c, i) ==
    { Kevent(ConnFd(c), "Read", CLIENTS_START_INDEX + i),
      Kevent(ConnFd(c), "Write", CLIENTS_START_INDEX + i) }

\* kqueue.remove drops the registration of (fd, filter), whatever its index
KqueueRemove(kq, fd, filter) == {r \in kq : ~(r.ident = fd /\ r.filter = filter)}

KqueueRemoveClient(kq, c) == KqueueRemove(KqueueRemove(kq, ConnFd(c), "Read"), ConnFd(c), "Write")

PlatformEvent(kind, handle, tag) == [kind |-> kind, handle |-> handle, tag |-> tag]

Request(kind, handle, buf, tag) == [kind |-> kind, handle |-> handle, buf |-> buf, tag |-> tag]

\* the bytes of the pooled buffer with the given id
BufBytes(id) == [k \in 1..BufLen |-> id * 10 + k]

PooledBuf(id) == [id |-> id, bytes |-> BufBytes(id)]

Op(op, index, tag) == [op |-> op, index |-> index, tag |-> tag]

BufIds(queue) == [k \in 1..Len(queue) |-> queue[k].id]

\* buf_pool.release for each id of the sequence
Release(rel, ids) == [b \in DOMAIN rel |-> rel[b] + Cardinality({k \in 1..Len(ids) : ids[k] = b})]

\* unix_utils.rs write_to_connection.  The socket takes `cap` more bytes and
\* then answers the next write with WouldBlock (fail = FALSE) or with another
\* error (fail = TRUE).  The result is the queue left behind, the bytes the
\* socket accepted, the ids of the buffers released to the pool, and Ok/Err.
RECURSIVE write_to_connection(_, _, _)
write_to_connection(write_queue, cap, fail) ==
    IF write_queue = <<>> THEN
        [queue |-> <<>>, written |-> <<>>, released |-> <<>>, ok |-> TRUE]
    ELSE IF cap = 0 THEN
        IF fail THEN
            [queue |-> <<>>, written |-> <<>>, released |-> BufIds(write_queue), ok |-> FALSE]
        ELSE
            [queue |-> write_queue, written |-> <<>>, released |-> <<>>, ok |-> TRUE]
    ELSE
        LET buf == Head(write_queue)
            len == Min(cap, Len(buf.bytes))
            drained == [buf EXCEPT !.bytes = SubSeq(buf.bytes, len + 1, Len(buf.bytes))]
            empty == drained.bytes = <<>>
            rest == IF empty THEN Tail(write_queue) ELSE <<drained>> \o Tail(write_queue)
            r == write_to_connection(rest, cap - len, fail)
        IN  [queue |-> r.queue,
             written |-> SubSeq(buf.bytes, 1, len) \o r.written,
             released |-> (IF empty THEN <<buf.id>> ELSE <<>>) \o r.released,
             ok |-> r.ok]

RECURSIVE QueueBytes(_)
QueueBytes(queue) ==
    IF queue = <<>> THEN 0 ELSE Len(Head(queue).bytes) + QueueBytes(Tail(queue))

\* the socket behaviours that differ on the given queue
SocketOutcomes(queue) ==
    {o \in [cap : 0..QueueBytes(queue), fail : BOOLEAN] :
        o.fail => o.cap < QueueBytes(queue)}

\* (variant: the highest free slot is taken)
FreeClientSlot_highest(conns) ==
    IF \E i \in ClientSlots : conns[i] = NoConnection
    THEN CHOOSE i \in ClientSlots :
            /\ conns[i] = NoConnection
            /\ \A j \in ClientSlots : conns[j] = NoConnection => j <= i
    ELSE -1

\* the lowest free client slot, or -1 (bsd.rs 264..281)
FreeClientSlot(conns) ==
    IF \E i \in ClientSlots : conns[i] = NoConnection
    THEN CHOOSE i \in ClientSlots :
            /\ conns[i] = NoConnection
            /\ \A j \in ClientSlots : conns[j] = NoConnection => i <= j
    ELSE -1

\* listener.accept() of the connections c+1 .. c+n (bsd.rs 257..285)
RECURSIVE AcceptAll(_, _, _)
AcceptAll(n, c, st) ==
    IF n = 0 THEN st
    ELSE
        LET i == FreeClientSlot(st.conns) IN
        IF i = -1 THEN AcceptAll(n - 1, c + 1, st)
        ELSE AcceptAll(n - 1, c + 1,
                [conns |-> [st.conns EXCEPT ![i] = c + 1],
                 kq |-> st.kq \cup ClientKevents(c + 1, i),
                 evs |-> Append(st.evs, PlatformEvent("ConnectionOpen", i, 0))])

\* bsd.rs 350..352: skip the update when there is nothing to deliver
AfterEvents(evs, redraw) == IF evs = <<>> /\ ~redraw THEN "wait" ELSE "update"

\* bsd.rs 466..468, reached when the request queue is drained
AfterRequests(evs, t) == IF evs # <<>> THEN "Zero" ELSE t

\* What the environment does in one run: how many clients connect, how many
\* buffers the application writes to clients, how many processes it spawns.
Budgets ==
    { [conns |-> MaxConns, bufs |-> 0, spawns |-> 0],
      [conns |-> WriterConns, bufs |-> MaxBufs, spawns |-> 0],
      [conns |-> SpawnerConns, bufs |-> 0, spawns |-> MaxSpawns] }

ServerStart ==
    /\ budget \in Budgets
    /\ pc = "wait"
    /\ timeout = "None"
    /\ previous_timeout = "None"
    /\ need_redraw = FALSE
    /\ events = <<>>
    /\ triggered = <<>>
    /\ requests = <<>>
    /\ client_connections = [i \in ClientSlots |-> NoConnection]
    /\ client_write_queue = [i \in ClientSlots |-> <<>>]
    /\ processes = [p \in ProcessSlots |-> NONE_PROCESS]
    /\ kqueue = {Kevent(ListenerFd, "Read", 0)}
    /\ next_conn = 0
    /\ next_buf = 0
    /\ next_tag = 0
    /\ sent = [c \in 1..MaxConns |-> <<>>]
    /\ requested = [c \in 1..MaxConns |-> <<>>]
    /\ released = [b \in 1..MaxBufs |-> 0]
    /\ emitted = [t \in 1..MaxSpawns |-> <<>>]
    /\ tick = "none"
    /\ last = Op("init", 0, 0)

\* what kqueue.wait can report: one event per registration, or an EV_ERROR
Triggerable ==
    {[index |-> r.index, kind |-> r.filter, data |-> 1] : r \in {q \in kqueue : q.ident # ListenerFd}}
    \cup {[index |-> 0, kind |-> "Read", data |-> d] : d \in 1..Min(2, budget.conns - next_conn)}
    \cup {[index |-> 0, kind |-> "Error", data |-> 0]}

Batches ==
    {b \in SeqsOf(Triggerable, 0, MaxBatch) :
        \A m, n \in 1..Len(b) :
            (m # n) => (b[m].index # b[n].index \/ b[m].kind # b[n].kind)}

\* ---- the top of the loop: kqueue.wait and the timeout ladder (bsd.rs 226..240)
Wait ==
    /\ pc = "wait"
    /\ \E batch \in Batches :
        /\ previous_timeout' = (IF batch = <<>> THEN "None" ELSE timeout)
        /\ triggered' = batch
        /\ tick' = (IF batch # <<>> THEN "readiness"
                    ELSE IF timeout = "None" THEN tick
                    ELSE IF tick = "delivered" THEN "zero_waited"
                    ELSE IF tick = "zero_waited" THEN "idle_waited"
                    ELSE "none")
        /\ last' = Op("wait", 0, 0)
        /\ IF batch = <<>> THEN
                /\ timeout' = (IF timeout = "Zero" THEN "Idle" ELSE "None")
                /\ events' = (IF timeout = "Idle"
                              THEN Append(events, PlatformEvent("Idle", 0, 0))
                              ELSE events)
                /\ pc' = (IF timeout = "None" THEN "wait"
                          ELSE AfterEvents(events', need_redraw))
           ELSE
                /\ timeout' = "Zero"
                /\ events' = events
                /\ pc' = "events"
    /\ UNCHANGED <<commandVars, viewVars, historyVars, queueVars, textVars, lspVars, undoVars, insertVars, rpcVars, editVars, wsVars, uriVars, clientVars, scrollVars, columnVars, langVars, aliasVars, keymapVars>>
    /\ UNCHANGED <<budget, need_redraw, requests, client_connections, client_write_queue,
                   processes, kqueue, next_conn, next_buf, next_tag, sent,
                   requested, released, emitted>>

\* the rest of the batch, and where the loop goes when the batch is done
\* (previous_timeout is a binding of one iteration: it is dead after the batch)
NextEvent(evs) ==
    /\ triggered' = Tail(triggered)
    /\ pc' = (IF Tail(triggered) = <<>> THEN AfterEvents(evs, need_redraw) ELSE "events")
    /\ previous_timeout' = (IF Tail(triggered) = <<>> THEN "None" ELSE previous_timeout)

\* the ids of the buffers of every client queue, slot i onwards
RECURSIVE QueuedIds(_, _)
QueuedIds(queues, i) ==
    IF i = MAX_CLIENT_COUNT THEN <<>> ELSE BufIds(queues[i]) \o QueuedIds(queues, i + 1)

\* ---- Err(()) from kqueue: release every queued buffer and return (bsd.rs 245..252)
EvError ==
    /\ pc = "events"
    /\ Head(triggered).kind = "Error"
    /\ released' = Release(released, QueuedIds(client_write_queue, 0))
    /\ client_write_queue' = [i \in ClientSlots |-> <<>>]
    /\ pc' = "done"
    /\ triggered' = <<>>
    /\ previous_timeout' = "None"
    /\ last' = Op("kqueue_error", 0, 0)
    /\ UNCHANGED <<commandVars, viewVars, historyVars, queueVars, textVars, lspVars, undoVars, insertVars, rpcVars, editVars, wsVars, uriVars, clientVars, scrollVars, columnVars, langVars, aliasVars, keymapVars>>
    /\ UNCHANGED <<budget, timeout, need_redraw, events, requests,
                   client_connections, processes, kqueue, next_conn, next_buf,
                   next_tag, sent, requested, emitted, tick>>

\* ---- event index 0: accept event_data connections (bsd.rs 256..286)
EvListener ==
    /\ pc = "events"
    /\ Head(triggered).kind = "Read"
    /\ Head(triggered).index = 0
    /\ LET st == AcceptAll(Head(triggered).data, next_conn,
                    [conns |-> client_connections, kq |-> kqueue, evs |-> events])
       IN  /\ client_connections' = st.conns
           /\ kqueue' = st.kq
           /\ events' = st.evs
           /\ NextEvent(st.evs)
    /\ next_conn' = next_conn + Head(triggered).data
    /\ last' = Op("accept", Head(triggered).data, 0)
    /\ UNCHANGED <<commandVars, viewVars, historyVars, queueVars, textVars, lspVars, undoVars, insertVars, rpcVars, editVars, wsVars, uriVars, clientVars, scrollVars, columnVars, langVars, aliasVars, keymapVars>>
    /\ UNCHANGED <<budget, timeout, need_redraw, requests,
                   client_write_queue, processes, next_buf, next_tag, sent,
                   requested, released, emitted, tick>>

\* (variant: the first slot is freed whatever the index)
CloseConnection_first(conns, index) == [conns EXCEPT ![0] = NoConnection]

\* closing one client connection (bsd.rs 303..306, 319..322, 387..390)
CloseConnection(conns, index) == [conns EXCEPT ![index] = NoConnection]

\* ---- a client index, EventKind::Read (bsd.rs 287..309)
EvClientRead ==
    /\ pc = "events"
    /\ Head(triggered).kind = "Read"
    /\ Head(triggered).index \in CLIENTS_START_INDEX..CLIENTS_LAST_INDEX
    /\ LET index == Head(triggered).index - CLIENTS_START_INDEX
           c == client_connections[index]
       IN  IF c = NoConnection THEN
                /\ last' = Op("client_read_skipped", index, 0)
                /\ NextEvent(events)
                /\ UNCHANGED <<events, client_connections, kqueue>>
           ELSE
                \E ok \in BOOLEAN :
                    IF ok THEN
                        /\ events' = Append(events, PlatformEvent("ConnectionOutput", index, 0))
                        /\ last' = Op("client_read", index, 0)
                        /\ NextEvent(events')
                        /\ UNCHANGED <<client_connections, kqueue>>
                    ELSE
                        /\ kqueue' = KqueueRemoveClient(kqueue, c)
                        /\ client_connections' = CloseConnection(client_connections, index)
                        /\ events' = Append(events, PlatformEvent("ConnectionClose", index, 0))
                        /\ last' = Op("client_read_error", index, 0)
                        /\ NextEvent(events')
    /\ UNCHANGED <<commandVars, viewVars, historyVars, queueVars, textVars, lspVars, undoVars, insertVars, rpcVars, editVars, wsVars, uriVars, clientVars, scrollVars, columnVars, langVars, aliasVars, keymapVars>>
    /\ UNCHANGED <<budget, timeout, need_redraw, requests,
                   client_write_queue, processes, next_conn, next_buf, next_tag,
                   sent, requested, released, emitted, tick>>

\* ---- a client index, EventKind::Write (bsd.rs 310..324)
EvClientWrite ==
    /\ pc = "events"
    /\ Head(triggered).kind = "Write"
    /\ Head(triggered).index \in CLIENTS_START_INDEX..CLIENTS_LAST_INDEX
    /\ LET index == Head(triggered).index - CLIENTS_START_INDEX
           c == client_connections[index]
       IN  IF c = NoConnection THEN
                /\ last' = Op("client_write_skipped", index, 0)
                /\ NextEvent(events)
                /\ UNCHANGED <<timeout, events, client_connections, kqueue,
                               client_write_queue, sent, released>>
           ELSE
                \E o \in SocketOutcomes(client_write_queue[index]) :
                    LET r == write_to_connection(client_write_queue[index], o.cap, o.fail) IN
                    /\ timeout' = previous_timeout
                    /\ client_write_queue' = [client_write_queue EXCEPT ![index] = r.queue]
                    /\ sent' = [sent EXCEPT ![c] = @ \o r.written]
                    /\ released' = Release(released, r.released)
                    /\ IF r.ok THEN
                            /\ last' = Op("client_write", index, 0)
                            /\ NextEvent(events)
                            /\ UNCHANGED <<events, client_connections, kqueue>>
                       ELSE
                            /\ kqueue' = KqueueRemoveClient(kqueue, c)
                            /\ client_connections' = CloseConnection(client_connections, index)
                            /\ events' = Append(events, PlatformEvent("ConnectionClose", index, 0))
                            /\ last' = Op("client_write_error", index, 0)
                            /\ NextEvent(events')
    /\ UNCHANGED <<commandVars, viewVars, historyVars, queueVars, textVars, lspVars, undoVars, insertVars, rpcVars, editVars, wsVars, uriVars, clientVars, scrollVars, columnVars, langVars, aliasVars, keymapVars>>
    /\ UNCHANGED <<budget, need_redraw, requests, processes, next_conn,
                   next_buf, next_tag, requested, emitted, tick>>

\* (variant: the slot keeps its process)
KillSlot_keeps(procs, index) == procs

\* process.kill() and processes[index] = None
\* (bsd.rs 336..341, 435..441, 454..460)
KillSlot(procs, index) == [procs EXCEPT ![index] = NONE_PROCESS]

\* number of ProcessOutput events already emitted for a tag
Outputs(tag) == Cardinality({k \in 1..Len(emitted[tag]) : emitted[tag][k] = "ProcessOutput"})

\* ---- a process index: read its stdout (bsd.rs 328..345, unix_utils.rs 441..460)
EvProcess ==
    /\ pc = "events"
    /\ Head(triggered).kind = "Read"
    /\ Head(triggered).index \in PROCESSES_START_INDEX..PROCESSES_LAST_INDEX
    /\ LET index == Head(triggered).index - PROCESSES_START_INDEX
           process == processes[index]
           tag == process.tag
       IN  IF process = NONE_PROCESS \/ ~process.stdout THEN
                \* no process in the slot, or Process::read answers Ok(None)
                /\ last' = Op("process_read_skipped", index, 0)
                /\ NextEvent(events)
                /\ UNCHANGED <<events, processes, kqueue, emitted>>
           ELSE
                \E ok \in BOOLEAN :
                    IF ok THEN
                        /\ Outputs(tag) < MaxOutputs
                        /\ events' = Append(events, PlatformEvent("ProcessOutput", index, tag))
                        /\ emitted' = [emitted EXCEPT ![tag] = Append(@, "ProcessOutput")]
                        /\ last' = Op("process_read", index, tag)
                        /\ NextEvent(events')
                        /\ UNCHANGED <<processes, kqueue>>
                    ELSE
                        /\ kqueue' = KqueueRemove(kqueue, ProcFd(tag), "Read")
                        /\ processes' = KillSlot(processes, index)
                        /\ events' = Append(events, PlatformEvent("ProcessExit", index, tag))
                        /\ emitted' = [emitted EXCEPT ![tag] = Append(@, "ProcessExit")]
                        /\ last' = Op("process_read_error", index, tag)
                        /\ NextEvent(events')
    /\ UNCHANGED <<commandVars, viewVars, historyVars, queueVars, textVars, lspVars, undoVars, insertVars, rpcVars, editVars, wsVars, uriVars, clientVars, scrollVars, columnVars, langVars, aliasVars, keymapVars>>
    /\ UNCHANGED <<budget, timeout, need_redraw, requests,
                   client_connections, client_write_queue, next_conn, next_buf,
                   next_tag, sent, requested, released, tick>>

\* ---- application.update and the requests it leaves behind (bsd.rs 354..356)
RequestShapes ==
    {[kind |-> "Quit", handle |-> 0], [kind |-> "Redraw", handle |-> 0]}
    \cup [kind : {"WriteToClient", "CloseClient"}, handle : ClientSlots]
    \cup (IF budget.spawns = 0 THEN {}
          ELSE {[kind |-> "SpawnProcess", handle |-> 0]}
               \cup [kind : {"WriteToProcess", "CloseProcessInput", "KillProcess"},
                     handle : ProcessSlots])

CountKind(shape, kind) == Cardinality({k \in 1..Len(shape) : shape[k].kind = kind})

\* the application acquires a pooled buffer per WriteToClient and picks a
\* fresh tag per SpawnProcess
RECURSIVE AssignIds(_, _, _)
AssignIds(shape, nb, nt) ==
    IF shape = <<>> THEN <<>>
    ELSE
        LET h == Head(shape) IN
        IF h.kind = "WriteToClient" THEN
            <<Request(h.kind, h.handle, nb + 1, 0)>> \o AssignIds(Tail(shape), nb + 1, nt)
        ELSE IF h.kind = "SpawnProcess" THEN
            <<Request(h.kind, 0, 0, nt + 1)>> \o AssignIds(Tail(shape), nb, nt + 1)
        ELSE
            <<Request(h.kind, h.handle, 0, 0)>> \o AssignIds(Tail(shape), nb, nt)

Update ==
    /\ pc = "update"
    /\ need_redraw' = FALSE
    /\ events' = <<>>
    /\ \E shape \in SeqsOf(RequestShapes, 0, MaxRequests) :
        /\ tick' = (IF tick = "readiness" THEN "delivered"
                    ELSE IF shape = <<>> THEN tick
                    ELSE "none")
        /\ next_buf + CountKind(shape, "WriteToClient") <= budget.bufs
        /\ next_tag + CountKind(shape, "SpawnProcess") <= budget.spawns
        /\ requests' = AssignIds(shape, next_buf, next_tag)
        /\ next_buf' = next_buf + CountKind(shape, "WriteToClient")
        /\ next_tag' = next_tag + CountKind(shape, "SpawnProcess")
        /\ pc' = (IF shape = <<>> THEN "wait" ELSE "requests")
        /\ last' = Op("update", 0, 0)
    /\ UNCHANGED <<commandVars, viewVars, historyVars, queueVars, textVars, lspVars, undoVars, insertVars, rpcVars, editVars, wsVars, uriVars, clientVars, scrollVars, columnVars, langVars, aliasVars, keymapVars>>
    /\ UNCHANGED <<budget, timeout, previous_timeout, triggered, client_connections,
                   client_write_queue, processes, kqueue, next_conn, sent,
                   requested, released, emitted>>

\* the rest of the drain; t is the timeout the request leaves (bsd.rs 357, 466..468)
NextRequest(evs, t) ==
    /\ requests' = Tail(requests)
    /\ IF Tail(requests) = <<>>
       THEN /\ timeout' = AfterRequests(evs, t)
            /\ pc' = "wait"
       ELSE /\ timeout' = t
            /\ pc' = "requests"

\* drop_request on the requests left in the queue
DroppedIds(reqs) ==
    LET wtc == SelectSeq(reqs, LAMBDA r : r.kind = "WriteToClient")
    IN  [k \in 1..Len(wtc) |-> wtc[k].buf]

\* ---- PlatformRequest::Quit (bsd.rs 359..369)
ReqQuit ==
    /\ pc = "requests"
    /\ Head(requests).kind = "Quit"
    /\ released' = Release(released,
            QueuedIds(client_write_queue, 0) \o DroppedIds(Tail(requests)))
    /\ client_write_queue' = [i \in ClientSlots |-> <<>>]
    /\ requests' = <<>>
    /\ pc' = "done"
    /\ last' = Op("quit", 0, 0)
    /\ UNCHANGED <<commandVars, viewVars, historyVars, queueVars, textVars, lspVars, undoVars, insertVars, rpcVars, editVars, wsVars, uriVars, clientVars, scrollVars, columnVars, langVars, aliasVars, keymapVars>>
    /\ UNCHANGED <<budget, timeout, previous_timeout, need_redraw, events, triggered,
                   client_connections, processes, kqueue, next_conn, next_buf,
                   next_tag, sent, requested, emitted, tick>>

\* ---- PlatformRequest::Redraw (bsd.rs 370..373)
ReqRedraw ==
    /\ pc = "requests"
    /\ Head(requests).kind = "Redraw"
    /\ need_redraw' = TRUE
    /\ NextRequest(events, "Zero")
    /\ last' = Op("redraw", 0, 0)
    /\ UNCHANGED <<commandVars, viewVars, historyVars, queueVars, textVars, lspVars, undoVars, insertVars, rpcVars, editVars, wsVars, uriVars, clientVars, scrollVars, columnVars, langVars, aliasVars, keymapVars>>
    /\ UNCHANGED <<budget, previous_timeout, events, triggered, client_connections,
                   client_write_queue, processes, kqueue, next_conn, next_buf,
                   next_tag, sent, requested, released, emitted, tick>>

\* ---- PlatformRequest::WriteToClient (bsd.rs 374..395)
ReqWriteToClient ==
    /\ pc = "requests"
    /\ Head(requests).kind = "WriteToClient"
    /\ LET index == Head(requests).handle
           buf == PooledBuf(Head(requests).buf)
           c == client_connections[index]
       IN  IF c = NoConnection THEN
                /\ released' = Release(released, <<buf.id>>)
                /\ last' = Op("write_to_closed_client", index, 0)
                /\ NextRequest(events, timeout)
                /\ UNCHANGED <<events, client_connections, client_write_queue,
                               kqueue, sent, requested>>
           ELSE
                LET write_queue == Append(client_write_queue[index], buf) IN
                \E o \in SocketOutcomes(write_queue) :
                    LET r == write_to_connection(write_queue, o.cap, o.fail) IN
                    /\ requested' = [requested EXCEPT ![c] = @ \o buf.bytes]
                    /\ client_write_queue' = [client_write_queue EXCEPT ![index] = r.queue]
                    /\ sent' = [sent EXCEPT ![c] = @ \o r.written]
                    /\ released' = Release(released, r.released)
                    /\ IF r.ok THEN
                            /\ last' = Op("write_to_client", index, 0)
                            /\ NextRequest(events, timeout)
                            /\ UNCHANGED <<events, client_connections, kqueue>>
                       ELSE
                            /\ kqueue' = KqueueRemoveClient(kqueue, c)
                            /\ client_connections' = CloseConnection(client_connections, index)
                            /\ events' = Append(events, PlatformEvent("ConnectionClose", index, 0))
                            /\ last' = Op("request_write_error", index, 0)
                            /\ NextRequest(events', timeout)
    /\ UNCHANGED <<commandVars, viewVars, historyVars, queueVars, textVars, lspVars, undoVars, insertVars, rpcVars, editVars, wsVars, uriVars, clientVars, scrollVars, columnVars, langVars, aliasVars, keymapVars>>
    /\ UNCHANGED <<budget, previous_timeout, need_redraw, triggered, processes, next_conn,
                   next_buf, next_tag, emitted, tick>>

\* ---- PlatformRequest::CloseClient (bsd.rs 396..403)
ReqCloseClient ==
    /\ pc = "requests"
    /\ Head(requests).kind = "CloseClient"
    /\ LET index == Head(requests).handle
           c == client_connections[index]
       IN  /\ kqueue' = (IF c = NoConnection THEN kqueue ELSE KqueueRemoveClient(kqueue, c))
           /\ client_connections' = CloseConnection(client_connections, index)
           /\ events' = Append(events, PlatformEvent("ConnectionClose", index, 0))
           /\ last' = Op("close_client", index, 0)
           /\ NextRequest(events', timeout)
    /\ UNCHANGED <<commandVars, viewVars, historyVars, queueVars, textVars, lspVars, undoVars, insertVars, rpcVars, editVars, wsVars, uriVars, clientVars, scrollVars, columnVars, langVars, aliasVars, keymapVars>>
    /\ UNCHANGED <<budget, previous_timeout, need_redraw, triggered, client_write_queue,
                   processes, next_conn, next_buf, next_tag, sent, requested,
                   released, emitted, tick>>

\* the lowest free process slot, or -1 (bsd.rs 410..413)
FreeProcessSlot(procs) ==
    IF \E i \in ProcessSlots : procs[i] = NONE_PROCESS
    THEN CHOOSE i \in ProcessSlots :
            /\ procs[i] = NONE_PROCESS
            /\ \A j \in ProcessSlots : procs[j] = NONE_PROCESS => i <= j
    ELSE -1

\* ---- PlatformRequest::SpawnProcess (bsd.rs 404..430)
ReqSpawnProcess ==
    /\ pc = "requests"
    /\ Head(requests).kind = "SpawnProcess"
    /\ LET tag == Head(requests).tag
           i == FreeProcessSlot(processes)
       IN  \E spawned \in BOOLEAN, stdin \in BOOLEAN, stdout \in BOOLEAN :
            IF i # -1 /\ spawned THEN
                /\ processes' = [processes EXCEPT
                        ![i] = [tag |-> tag, stdin |-> stdin, stdout |-> stdout]]
                /\ kqueue' = (IF stdout
                              THEN kqueue \cup {Kevent(ProcFd(tag), "Read", PROCESSES_START_INDEX + i)}
                              ELSE kqueue)
                /\ events' = Append(events, PlatformEvent("ProcessSpawned", i, tag))
                /\ emitted' = [emitted EXCEPT ![tag] = Append(@, "ProcessSpawned")]
                /\ last' = Op("spawn", i, tag)
                /\ NextRequest(events', timeout)
            ELSE
                /\ ~stdin /\ ~stdout
                /\ (i = -1 => ~spawned)
                /\ events' = Append(events, PlatformEvent("ProcessExit", 0, tag))
                /\ emitted' = [emitted EXCEPT ![tag] = Append(@, "ProcessExit")]
                /\ last' = Op(IF i = -1 THEN "spawn_no_slot" ELSE "spawn_failed", 0, tag)
                /\ NextRequest(events', timeout)
                /\ UNCHANGED <<processes, kqueue>>
    /\ UNCHANGED <<commandVars, viewVars, historyVars, queueVars, textVars, lspVars, undoVars, insertVars, rpcVars, editVars, wsVars, uriVars, clientVars, scrollVars, columnVars, langVars, aliasVars, keymapVars>>
    /\ UNCHANGED <<budget, previous_timeout, need_redraw, triggered, client_connections,
                   client_write_queue, next_conn, next_buf, next_tag, sent,
                   requested, released, tick>>

\* ---- PlatformRequest::WriteToProcess (bsd.rs 431..445, unix_utils.rs 462..468)
ReqWriteToProcess ==
    /\ pc = "requests"
    /\ Head(requests).kind = "WriteToProcess"
    /\ LET index == Head(requests).handle
           process == processes[index]
           tag == process.tag
       IN  \E written \in BOOLEAN :
            IF process # NONE_PROCESS /\ process.stdin /\ ~written THEN
                /\ kqueue' = KqueueRemove(kqueue, ProcFd(tag), "Read")
                /\ processes' = KillSlot(processes, index)
                /\ events' = Append(events, PlatformEvent("ProcessExit", index, tag))
                /\ emitted' = [emitted EXCEPT ![tag] = Append(@, "ProcessExit")]
                /\ last' = Op("process_write_error", index, tag)
                /\ NextRequest(events', timeout)
            ELSE
                /\ written
                /\ last' = Op("write_to_process", index, tag)
                /\ NextRequest(events, timeout)
                /\ UNCHANGED <<kqueue, processes, events, emitted>>
    /\ UNCHANGED <<commandVars, viewVars, historyVars, queueVars, textVars, lspVars, undoVars, insertVars, rpcVars, editVars, wsVars, uriVars, clientVars, scrollVars, columnVars, langVars, aliasVars, keymapVars>>
    /\ UNCHANGED <<budget, previous_timeout, need_redraw, triggered, client_connections,
                   client_write_queue, next_conn, next_buf, next_tag, sent,
                   requested, released, tick>>

\* ---- PlatformRequest::CloseProcessInput (bsd.rs 446..450, unix_utils.rs 470..472)
ReqCloseProcessInput ==
    /\ pc = "requests"
    /\ Head(requests).kind = "CloseProcessInput"
    /\ LET index == Head(requests).handle IN
        /\ processes' = (IF processes[index] # NONE_PROCESS
                         THEN [processes EXCEPT ![index].stdin = FALSE]
                         ELSE processes)
        /\ last' = Op("close_process_input", index, processes[index].tag)
    /\ NextRequest(events, timeout)
    /\ UNCHANGED <<commandVars, viewVars, historyVars, queueVars, textVars, lspVars, undoVars, insertVars, rpcVars, editVars, wsVars, uriVars, clientVars, scrollVars, columnVars, langVars, aliasVars, keymapVars>>
    /\ UNCHANGED <<budget, previous_timeout, need_redraw, events, triggered,
                   client_connections, client_write_queue, kqueue, next_conn,
                   next_buf, next_tag, sent, requested, released, emitted, tick>>

\* ---- PlatformRequest::KillProcess (bsd.rs 451..462)
ReqKillProcess ==
    /\ pc = "requests"
    /\ Head(requests).kind = "KillProcess"
    /\ LET index == Head(requests).handle
           process == processes[index]
           tag == process.tag
       IN  IF process # NONE_PROCESS THEN
                /\ kqueue' = KqueueRemove(kqueue, ProcFd(tag), "Read")
                /\ processes' = KillSlot(processes, index)
                /\ events' = Append(events, PlatformEvent("ProcessExit", index, tag))
                /\ emitted' = [emitted EXCEPT ![tag] = Append(@, "ProcessExit")]
                /\ last' = Op("kill_process", index, tag)
                /\ NextRequest(events', timeout)
           ELSE
                /\ last' = Op("kill_skipped", index, 0)
                /\ NextRequest(events, timeout)
                /\ UNCHANGED <<kqueue, processes, events, emitted>>
    /\ UNCHANGED <<commandVars, viewVars, historyVars, queueVars, textVars, lspVars, undoVars, insertVars, rpcVars, editVars, wsVars, uriVars, clientVars, scrollVars, columnVars, langVars, aliasVars, keymapVars>>
    /\ UNCHANGED <<budget, previous_timeout, need_redraw, triggered, client_connections,
                   client_write_queue, next_conn, next_buf, next_tag, sent,
                   requested, released, tick>>


\* ======================================================================
\* The command dispatcher (src/pepper/src/command.rs) over the builtin
\* commands (src/lib/command/builtin.rs)
\* ======================================================================

\* ---------------------------------------------------------------- bounds
MaxBuffers == 2
MaxClients == 2
MaxEvals == 1

BufferHandles == 0..(MaxBuffers - 1)
ClientHandles == 0..(MaxClients - 1)

\* Option::None of a handle
NoHandle == -1

\* a slot of the buffer / buffer view collection that holds nothing
NoBuffer == [alive |-> FALSE, needs_save |-> FALSE]
NoView == [alive |-> FALSE, buffer_handle |-> NoHandle]

\* The builtin commands the model carries: name, alias, whether `!` has a
\* meaning (bang_usage is Some), number of parameters.  Words are sequences
\* of characters.
COMMANDS == <<
    [name |-> <<"h","e","l","p">>, alias |-> <<"h">>, bang_usage |-> FALSE, params |-> 1],
    [name |-> <<"q","u","i","t">>, alias |-> <<"q">>, bang_usage |-> TRUE, params |-> 0],
    [name |-> <<"q","u","i","t","-","a","l","l">>, alias |-> <<"q","a">>,
        bang_usage |-> TRUE, params |-> 0],
    [name |-> <<"p","r","i","n","t">>, alias |-> <<"p">>, bang_usage |-> FALSE, params |-> 1],
    [name |-> <<"s","a","v","e","-","a","l","l">>, alias |-> <<"s","a">>,
        bang_usage |-> FALSE, params |-> 0],
    [name |-> <<"r","e","l","o","a","d">>, alias |-> <<"r">>, bang_usage |-> TRUE, params |-> 0],
    [name |-> <<"r","e","l","o","a","d","-","a","l","l">>, alias |-> <<"r","a">>,
        bang_usage |-> TRUE, params |-> 0],
    [name |-> <<"c","l","o","s","e">>, alias |-> <<"c">>, bang_usage |-> TRUE, params |-> 0],
    [name |-> <<"c","l","o","s","e","-","a","l","l">>, alias |-> <<"c","a">>,
        bang_usage |-> TRUE, params |-> 0] >>

\* str::strip_suffix('!'): the word without one trailing `!`, if it has one
strip_suffix(word) ==
    IF word # <<>> /\ word[Len(word)] = "!"
    THEN [some |-> TRUE, rest |-> SubSeq(word, 1, Len(word) - 1)]
    ELSE [some |-> FALSE, rest |-> word]

\* str::trim_end_matches('!'): the word without any trailing `!`
RECURSIVE trim_end_matches(_)
trim_end_matches(word) ==
    IF strip_suffix(word).some THEN trim_end_matches(strip_suffix(word).rest) ELSE word

\* AliasCollection::find: the command an alias stands for, <<>> for None
find_alias(from) ==
    LET hits == {i \in 1..Len(COMMANDS) : COMMANDS[i].alias = from} IN
    IF hits = {} THEN <<>> ELSE COMMANDS[CHOOSE i \in hits : \A j \in hits : i <= j].name

\* CommandManager::find_command: index of the command of that name, 0 for None
find_command(name) ==
    LET hits == {i \in 1..Len(COMMANDS) : COMMANDS[i].name = name} IN
    IF hits = {} THEN 0 ELSE CHOOSE i \in hits : \A j \in hits : i <= j

\* a status bar message
Message(kind, text, args) == [kind |-> kind, text |-> text, args |-> args]

\* impl fmt::Display for CommandError
ErrorText(error) ==
    CASE error = "NoSuchCommand" -> "no such command"
      [] error = "TooManyArguments" -> "too many arguments"
      [] error = "TooFewArguments" -> "too few arguments"
      [] error = "NoTargetClient" -> "no target client"
      [] error = "NoBufferOpened" -> "no buffer opened"
      [] error = "UnsavedChanges" -> "unsaved changes"
      [] error = "BufferReadError" -> "could not read from file"
      [] error = "BufferWriteError" -> "could not write to file"

\* CommandArgs::next for each parameter, then CommandArgs::assert_empty
CheckArgs(args, params) ==
    IF Len(args) < params THEN "TooFewArguments"
    ELSE IF Len(args) > params THEN "TooManyArguments"
    ELSE "Ok"

\* CommandIO::current_buffer_handle
current_buffer_handle(io, ctx) ==
    IF io.client_handle = NoHandle THEN [error |-> "NoTargetClient", handle |-> NoHandle]
    ELSE IF ctx.clients[io.client_handle].buffer_view_handle = NoHandle
    THEN [error |-> "NoBufferOpened", handle |-> NoHandle]
    ELSE [error |-> "Ok",
          handle |-> ctx.buffer_views[ctx.clients[io.client_handle].buffer_view_handle]
                        .buffer_handle]

\* Buffer::needs_save over the collection: does any buffer need saving
AnyNeedsSave(bufs) == \E b \in BufferHandles : bufs[b].alive /\ bufs[b].needs_save

\* (variant: the test of the buffers is not negated)
assert_can_discard_all_buffers_any(io, ctx) ==
    IF io.bang \/ AnyNeedsSave(ctx.buffers) THEN "Ok" ELSE "UnsavedChanges"

\* CommandIO::assert_can_discard_all_buffers
assert_can_discard_all_buffers(io, ctx) ==
    IF io.bang \/ ~AnyNeedsSave(ctx.buffers) THEN "Ok" ELSE "UnsavedChanges"

\* CommandIO::assert_can_discard_buffer
assert_can_discard_buffer(io, ctx, handle) ==
    IF io.bang \/ ~ctx.buffers[handle].needs_save THEN "Ok" ELSE "UnsavedChanges"

\* Buffer::save_to_file and Buffer::discard_and_reload_from_file, when they
\* succeed, leave the buffer equal to its file
synced(buffer) == [buffer EXCEPT !.needs_save = FALSE]

\* `for buffer in buffers.iter_mut() { file operation ? }`: the buffers in
\* handle order, stopping at the first whose file operation fails
RECURSIVE for_each_buffer(_, _, _)
for_each_buffer(bufs, h, failing) ==
    IF h = MaxBuffers THEN [buffers |-> bufs, ok |-> TRUE]
    ELSE IF ~bufs[h].alive THEN for_each_buffer(bufs, h + 1, failing)
    ELSE IF h \in failing THEN [buffers |-> bufs, ok |-> FALSE]
    ELSE for_each_buffer([bufs EXCEPT ![h] = synced(@)], h + 1, failing)

\* BufferViewCollection::defer_remove_buffer_where: the views the predicate
\* picks are removed together with the buffers they show
defer_remove_buffer_where(ctx, picked) ==
    [ctx EXCEPT
        !.buffer_views = [v \in DOMAIN @ |-> IF v \in picked THEN NoView ELSE @[v]],
        !.buffers = [b \in BufferHandles |->
            IF \E v \in picked : ctx.buffer_views[v].buffer_handle = b
            THEN NoBuffer ELSE @[b]]]

\* what a command function leaves behind: the editor, Ok or the CommandError,
\* and io.flow
Done(ctx, result, io_flow) == [ctx |-> ctx, result |-> result, flow |-> io_flow]

Info(ctx, text, args) == [ctx EXCEPT !.status_bar = Message("Info", text, args)]

\* help: prints help about the command named by its argument
help(ctx, io) ==
    IF find_command(io.args[1]) = 0 THEN Done(ctx, "NoSuchCommand", io.flow)
    ELSE Done(Info(ctx, "usage", <<io.args[1]>>), "Ok", io.flow)

\* quit: quits this client
quit(ctx, io) ==
    IF /\ Cardinality({c \in ClientHandles : ctx.clients[c].active}) = 1
       /\ assert_can_discard_all_buffers(io, ctx) # "Ok"
    THEN Done(ctx, "UnsavedChanges", io.flow)
    ELSE Done(ctx, "Ok", "Quit")

\* quit-all: quits all clients
quit_all(ctx, io) ==
    IF assert_can_discard_all_buffers(io, ctx) # "Ok"
    THEN Done(ctx, "UnsavedChanges", io.flow)
    ELSE Done(ctx, "Ok", "QuitAll")

\* print: writes its argument to the status bar
print(ctx, io) == Done(Info(ctx, "{}", <<io.args[1]>>), "Ok", io.flow)

\* save-all: saves every buffer, stopping at the first that fails
save_all(ctx, io, failing) ==
    LET r == for_each_buffer(ctx.buffers, 0, failing) IN
    IF r.ok THEN Done(Info([ctx EXCEPT !.buffers = r.buffers], "buffers saved", <<>>),
                      "Ok", io.flow)
    ELSE Done([ctx EXCEPT !.buffers = r.buffers], "BufferWriteError", io.flow)

\* reload: reload_buffer(ctx, None)
reload_buffer(ctx, io, failing) ==
    LET cur == current_buffer_handle(io, ctx) IN
    IF cur.error # "Ok" THEN Done(ctx, cur.error, io.flow)
    ELSE IF assert_can_discard_buffer(io, ctx, cur.handle) # "Ok"
    THEN Done(ctx, "UnsavedChanges", io.flow)
    ELSE IF cur.handle \in failing THEN Done(ctx, "BufferReadError", io.flow)
    ELSE Done(Info([ctx EXCEPT !.buffers[cur.handle] = synced(@)], "buffer reloaded", <<>>),
              "Ok", io.flow)

\* reload-all: reloads every buffer, stopping at the first that fails
reload_all(ctx, io, failing) ==
    LET r == for_each_buffer(ctx.buffers, 0, failing) IN
    IF assert_can_discard_all_buffers(io, ctx) # "Ok"
    THEN Done(ctx, "UnsavedChanges", io.flow)
    ELSE IF r.ok
    THEN Done(Info([ctx EXCEPT !.buffers = r.buffers], "buffers reloaded", <<>>),
              "Ok", io.flow)
    ELSE Done([ctx EXCEPT !.buffers = r.buffers], "BufferReadError", io.flow)

\* close: close_buffer(ctx, None)
close_buffer(ctx, io) ==
    LET cur == current_buffer_handle(io, ctx)
        shows(v) == ctx.buffer_views[v].alive /\ ctx.buffer_views[v].buffer_handle = cur.handle
        removed == defer_remove_buffer_where(ctx, {v \in DOMAIN ctx.buffer_views : shows(v)})
    IN
    IF cur.error # "Ok" THEN Done(ctx, cur.error, io.flow)
    ELSE IF assert_can_discard_buffer(io, ctx, cur.handle) # "Ok"
    THEN Done(ctx, "UnsavedChanges", io.flow)
    ELSE Done(Info([removed EXCEPT !.clients = [c \in ClientHandles |->
                        IF @[c].buffer_view_handle # NoHandle /\ shows(@[c].buffer_view_handle)
                        THEN [@[c] EXCEPT !.buffer_view_handle = NoHandle]
                        ELSE @[c]]],
                   "buffer closed", <<>>),
              "Ok", io.flow)

\* close-all: closes every buffer
close_all(ctx, io) ==
    LET removed == defer_remove_buffer_where(ctx,
                        {v \in DOMAIN ctx.buffer_views : ctx.buffer_views[v].alive})
    IN
    IF assert_can_discard_all_buffers(io, ctx) # "Ok"
    THEN Done(ctx, "UnsavedChanges", io.flow)
    ELSE Done(Info([removed EXCEPT !.clients = [c \in ClientHandles |->
                        [@[c] EXCEPT !.buffer_view_handle = NoHandle]]],
                   "buffers closed", <<>>),
              "Ok", io.flow)

\* Command::command_fn of COMMANDS[i]: the arguments are taken first, then
\* the body runs
command_fn(i, ctx, io, failing) ==
    IF CheckArgs(io.args, COMMANDS[i].params) # "Ok"
    THEN Done(ctx, CheckArgs(io.args, COMMANDS[i].params), io.flow)
    ELSE CASE i = 1 -> help(ctx, io)
           [] i = 2 -> quit(ctx, io)
           [] i = 3 -> quit_all(ctx, io)
           [] i = 4 -> print(ctx, io)
           [] i = 5 -> save_all(ctx, io, failing)
           [] i = 6 -> reload_buffer(ctx, io, failing)
           [] i = 7 -> reload_all(ctx, io, failing)
           [] i = 8 -> close_buffer(ctx, io)
           [] i = 9 -> close_all(ctx, io)

\* what eval found out on the way: the command it invoked (0 for none), the
\* bang and the arguments it passed
Invoked(i, bang, args) == [invoked |-> i, bang |-> bang, args |-> args]

\* CommandManager::eval: a command line is the sequence of its tokens
eval(ctx, client_handle, command, failing) ==
    LET word == strip_suffix(command[1])
        i == find_command(word.rest)
        io == [client_handle |-> client_handle, args |-> Tail(command),
               bang |-> word.some, flow |-> "Continue"]
    IN
    IF command = <<>> THEN [io |-> Invoked(0, FALSE, <<>>)] @@ Done(ctx, "NoSuchCommand", "Continue")
    ELSE IF i = 0 THEN [io |-> Invoked(0, word.some, Tail(command))]
                            @@ Done(ctx, "NoSuchCommand", "Continue")
    ELSE [io |-> Invoked(i, word.some, Tail(command))] @@ command_fn(i, ctx, io, failing)

\* (variant: the alias takes the place of the whole first token)
try_eval_whole_token(ctx, client_handle, command, failing) ==
    IF command # <<>> /\ find_alias(trim_end_matches(command[1])) # <<>>
    THEN eval(ctx, client_handle,
              <<find_alias(trim_end_matches(command[1]))>> \o Tail(command), failing)
    ELSE eval(ctx, client_handle, command, failing)

\* CommandManager::try_eval: the first token, without its `!`s, is replaced
\* by the command it is an alias of.  The lines of the model hold no `@`, so
\* expand_variables leaves them as they are.
try_eval(ctx, client_handle, command, failing) ==
    LET alias == trim_end_matches(command[1])
        aliased == find_alias(alias)
    IN
    IF command # <<>> /\ aliased # <<>>
    THEN eval(ctx, client_handle,
              <<aliased \o SubSeq(command[1], Len(alias) + 1, Len(command[1]))>>
                    \o Tail(command),
              failing)
    ELSE eval(ctx, client_handle, command, failing)

\* (variant: the error is dropped without a message)
eval_and_write_error_silent(ctx, client_handle, command, failing) ==
    LET r == try_eval(ctx, client_handle, command, failing) IN
    IF r.result = "Ok" THEN r ELSE [r EXCEPT !.flow = "Continue"]

\* CommandManager::eval_and_write_error
eval_and_write_error(ctx, client_handle, command, failing) ==
    LET r == try_eval(ctx, client_handle, command, failing) IN
    IF r.result = "Ok" THEN r
    ELSE [r EXCEPT !.ctx.status_bar = Message("Error", ErrorText(r.result), <<>>),
                   !.flow = "Continue"]

\* no command line has been evaluated yet
NotEvaluated ==
    [client_handle |-> NoHandle, invoked |-> 0, bang |-> FALSE, args |-> <<>>,
     result |-> "None", count |-> 0, command |-> <<>>]

\* Editor::new: no buffer, no view, no client, an empty status bar
CommandParked ==
    /\ buffers = [b \in BufferHandles |-> NoBuffer]
    /\ buffer_views = [v \in ClientHandles |-> NoView]
    /\ clients = [c \in ClientHandles |-> [active |-> FALSE, buffer_view_handle |-> NoHandle]]
    /\ status_bar = Message("Info", "", <<>>)
    /\ flow = "Continue"
    /\ evaluated = NotEvaluated

\* The editor when a command line arrives: some buffers, clean or with
\* unsaved changes, views of open buffers, and clients each showing its own
\* view or none.
CommandStart ==
    /\ buffers \in [BufferHandles ->
            {NoBuffer} \cup {[alive |-> TRUE, needs_save |-> s] : s \in BOOLEAN}]
    /\ buffer_views \in [ClientHandles ->
            {NoView} \cup {[alive |-> TRUE, buffer_handle |-> b] : b \in BufferHandles}]
    /\ \A v \in ClientHandles :
            buffer_views[v].alive => buffers[buffer_views[v].buffer_handle].alive
    /\ clients \in [ClientHandles ->
            [active : BOOLEAN, buffer_view_handle : {NoHandle} \cup ClientHandles]]
    /\ \A c \in ClientHandles :
            clients[c].buffer_view_handle # NoHandle =>
                /\ clients[c].active
                /\ clients[c].buffer_view_handle = c
                /\ buffer_views[c].alive
    /\ status_bar = Message("Info", "", <<>>)
    /\ flow = "Continue"
    /\ evaluated = NotEvaluated

\* The command lines the model evaluates: nothing, or a first word (a
\* command name, an alias or an unknown word, with up to two `!`) followed by
\* up to two arguments.
CommandLines ==
    LET heads == {COMMANDS[i].name : i \in 1..Len(COMMANDS)}
                    \cup {COMMANDS[i].alias : i \in 1..Len(COMMANDS)}
                    \cup {<<"n","o">>}
        bangs == {<<>>, <<"!">>}
        arg == COMMANDS[4].name
        args == {<<>>, <<arg>>, <<arg, arg>>}
    IN {<<>>, <<COMMANDS[2].name \o <<"!","!">>>>, <<COMMANDS[2].alias \o <<"!","!">>>>}
        \cup {<<h \o b>> \o a : h \in heads, b \in bangs, a \in args}

\* ---- one command line is evaluated, for a client or for none, with the
\* file operations of `failing` failing (command.rs 467..533)
EvalCommand ==
    /\ evaluated.count < MaxEvals
    /\ \E command \in CommandLines,
          client_handle \in {NoHandle} \cup {c \in ClientHandles : clients[c].active},
          failing \in SUBSET BufferHandles :
        \E r \in {eval_and_write_error(
                    [buffers |-> buffers, buffer_views |-> buffer_views,
                     clients |-> clients, status_bar |-> status_bar],
                    client_handle, command, failing)} :
        /\ buffers' = r.ctx.buffers
        /\ buffer_views' = r.ctx.buffer_views
        /\ clients' = r.ctx.clients
        /\ status_bar' = r.ctx.status_bar
        /\ flow' = r.flow
        /\ evaluated' = [client_handle |-> client_handle, invoked |-> r.io.invoked,
                         bang |-> r.io.bang, args |-> r.io.args, result |-> r.result,
                         count |-> evaluated.count + 1, command |-> command]
    /\ UNCHANGED <<serverVars, viewVars, historyVars, queueVars, textVars, lspVars, undoVars, insertVars, rpcVars, editVars, wsVars, uriVars, clientVars, scrollVars, columnVars, langVars, aliasVars, keymapVars>>

\* ======================================================================
\* Multi-cursor edits of a buffer view (src/pepper/src/buffer_view.rs).
\* Buffer, BufferPosition and Cursor are modelled after the specification's
\* description of them.
\* ======================================================================

\* ---------------------------------------------------------------- bounds
MaxLines == 2
MaxLineLen == 2
MaxCursors == 2
MaxEdits == 1
MaxCount == 3
MaxQueued == 2
MaxWords == 2
MaxDepth == 2
MaxBody == 5
MaxPasses == 2
MaxFrames == 2
MaxGroupEdits == 2
MaxGroups == 1
MaxKeys == 2
MaxIssued == 3
MaxTextEdits == 2
MaxChanges == 2

\* the capacity the history asks for (command.rs 18)
HISTORY_CAPACITY == 10

\* BufferPosition::line_col
Pos(line, col) == [line_index |-> line, column_byte_index |-> col]

\* the order of BufferPosition: by line, then by column
PosLeq(p, q) ==
    \/ p.line_index < q.line_index
    \/ p.line_index = q.line_index /\ p.column_byte_index <= q.column_byte_index

\* Cursor::to_range: from the smaller of anchor and position to the larger
to_range(cursor) ==
    IF PosLeq(cursor.anchor, cursor.position)
    THEN [from |-> cursor.anchor, to |-> cursor.position]
    ELSE [from |-> cursor.position, to |-> cursor.anchor]

\* the text cut at its line breaks
RECURSIVE SplitLines(_)
SplitLines(text) ==
    IF \A k \in 1..Len(text) : text[k] # "\n" THEN <<text>>
    ELSE LET k == CHOOSE j \in 1..Len(text) :
                        text[j] = "\n" /\ \A m \in 1..(j - 1) : text[m] # "\n"
         IN <<SubSeq(text, 1, k - 1)>> \o SplitLines(SubSeq(text, k + 1, Len(text)))

\* Buffer::insert_text: the content with the text put at the position, and
\* the range the text now covers.  The content is a sequence of lines.
insert_text(content, position, text) ==
    LET l == position.line_index + 1
        c == position.column_byte_index
        ts == SplitLines(text)
        n == Len(ts)
        before == SubSeq(content[l], 1, c)
        after == SubSeq(content[l], c + 1, Len(content[l]))
        lines == IF n = 1 THEN <<before \o ts[1] \o after>>
                 ELSE <<before \o ts[1]>> \o SubSeq(ts, 2, n - 1) \o <<ts[n] \o after>>
    IN [content |-> SubSeq(content, 1, l - 1) \o lines \o SubSeq(content, l + 1, Len(content)),
        range |-> [from |-> position,
                   to |-> IF n = 1 THEN Pos(l - 1, c + Len(text))
                          ELSE Pos(l + n - 2, Len(ts[n]))]]

\* Buffer::delete_range: the content without the text of the range
delete_range(content, range) ==
    LET fl == range.from.line_index + 1
        tl == range.to.line_index + 1
    IN SubSeq(content, 1, fl - 1)
        \o <<SubSeq(content[fl], 1, range.from.column_byte_index)
                \o SubSeq(content[tl], range.to.column_byte_index + 1, Len(content[tl]))>>
        \o SubSeq(content, tl + 1, Len(content))

\* BufferPosition::insert: a position at or after the start of an inserted
\* range moves by the extent of the range
position_insert(p, range) ==
    IF ~PosLeq(range.from, p) THEN p
    ELSE IF p.line_index > range.from.line_index
    THEN Pos(p.line_index + range.to.line_index - range.from.line_index,
             p.column_byte_index)
    ELSE Pos(p.line_index + range.to.line_index - range.from.line_index,
             p.column_byte_index + range.to.column_byte_index
                - range.from.column_byte_index)

\* BufferPosition::delete: a position inside a deleted range falls to its
\* start, a position after it moves back by the extent of the range
position_delete(p, range) ==
    IF PosLeq(p, range.from) THEN p
    ELSE IF PosLeq(p, range.to) THEN range.from
    ELSE IF p.line_index > range.to.line_index
    THEN Pos(p.line_index - (range.to.line_index - range.from.line_index),
             p.column_byte_index)
    ELSE Pos(range.from.line_index,
             p.column_byte_index + range.from.column_byte_index
                - range.to.column_byte_index)

\* the cursor guard on release: cursors sorted by the start of their range,
\* overlapping ones merged into the union of their ranges
RECURSIVE MergeCursors(_)
MergeCursors(cs) ==
    IF Len(cs) < 2 THEN cs
    ELSE LET a == to_range(cs[1])
             b == to_range(cs[2])
         IN IF PosLeq(b.from, a.to)
            THEN MergeCursors(<<[anchor |-> a.from,
                                 position |-> IF PosLeq(a.to, b.to) THEN b.to ELSE a.to]>>
                              \o SubSeq(cs, 3, Len(cs)))
            ELSE <<cs[1]>> \o MergeCursors(Tail(cs))

mut_guard_release(cs) ==
    LET order == CHOOSE f \in Permutations(1..Len(cs)) :
                    \A i, j \in 1..Len(cs) :
                        i < j => /\ PosLeq(to_range(cs[f[i]]).from, to_range(cs[f[j]]).from)
                                 /\ (to_range(cs[f[i]]).from = to_range(cs[f[j]]).from
                                        => f[i] < f[j])
    IN MergeCursors([i \in 1..Len(cs) |-> cs[order[i]]])

\* where the main cursor is once the guard is released: the index (from 0) of
\* the cursor that now covers it
main_cursor_index_after(cs, main_cursor_index) ==
    LET after == mut_guard_release(cs)
        main == to_range(cs[main_cursor_index + 1])
    IN (CHOOSE i \in 1..Len(after) :
            /\ PosLeq(to_range(after[i]).from, main.from)
            /\ PosLeq(main.to, to_range(after[i]).to)) - 1

\* the cursor indices from the last to the first
Rev(n) == [i \in 1..n |-> n + 1 - i]

\* `for cursor in cursors.iter() { buffer.insert_text(cursor.position, text) }`
\* over the cursors in the given order: the content and the insert events
RECURSIVE insert_each(_, _, _, _, _)
insert_each(content, cursors, order, text, inserts) ==
    IF order = <<>> THEN [content |-> content, events |-> inserts]
    ELSE LET r == insert_text(content, cursors[Head(order)].position, text)
         IN insert_each(r.content, cursors, Tail(order), text, Append(inserts, r.range))

\* (variant: the cursors are visited from the first to the last)
insert_text_at_cursor_positions_forward(content, cursors, text) ==
    insert_each(content, cursors, [i \in 1..Len(cursors) |-> i], text, <<>>)

\* BufferView::insert_text_at_cursor_positions
insert_text_at_cursor_positions(content, cursors, text) ==
    insert_each(content, cursors, Rev(Len(cursors)), text, <<>>)

\* `for cursor in cursors.iter() { buffer.delete_range(cursor.to_range()) }`
RECURSIVE delete_each(_, _, _, _)
delete_each(content, cursors, order, deletes) ==
    IF order = <<>> THEN [content |-> content, events |-> deletes]
    ELSE delete_each(delete_range(content, to_range(cursors[Head(order)])), cursors,
                     Tail(order), Append(deletes, to_range(cursors[Head(order)])))

\* BufferView::delete_text_in_cursor_ranges
delete_text_in_cursor_ranges(content, cursors) ==
    delete_each(content, cursors, Rev(Len(cursors)), <<>>)

\* `for range in ranges { for c in cursors { c.insert(range) } }`, or
\* c.delete(range): Cursor::insert and Cursor::delete move anchor and position
RECURSIVE reconcile(_, _, _)
reconcile(cursors, kind, ranges) ==
    IF ranges = <<>> THEN cursors
    ELSE reconcile(
            [i \in 1..Len(cursors) |->
                IF kind = "insert"
                THEN [anchor |-> position_insert(cursors[i].anchor, Head(ranges)),
                      position |-> position_insert(cursors[i].position, Head(ranges))]
                ELSE [anchor |-> position_delete(cursors[i].anchor, Head(ranges)),
                      position |-> position_delete(cursors[i].position, Head(ranges))]],
            kind, Tail(ranges))

\* BufferViewCollection::on_buffer_text_inserts: every view on the buffer has
\* its cursors moved across each inserted range, in the order of the events,
\* and then releases its cursor guard
on_buffer_text_inserts(vs, buffer_handle, inserts) ==
    [v \in DOMAIN vs |->
        IF vs[v].buffer_handle = buffer_handle
        THEN [vs[v] EXCEPT
                !.cursors = mut_guard_release(reconcile(@, "insert", inserts)),
                !.main_cursor_index =
                    main_cursor_index_after(reconcile(vs[v].cursors, "insert", inserts), @)]
        ELSE vs[v]]

\* (variant: the views on other buffers are moved as well)
on_buffer_range_deletes_every_view(vs, buffer_handle, deletes) ==
    [v \in DOMAIN vs |->
        [vs[v] EXCEPT
                !.cursors = mut_guard_release(reconcile(@, "delete", deletes)),
                !.main_cursor_index =
                    main_cursor_index_after(reconcile(vs[v].cursors, "delete", deletes), @)]]

\* BufferViewCollection::on_buffer_range_deletes
on_buffer_range_deletes(vs, buffer_handle, deletes) ==
    [v \in DOMAIN vs |->
        IF vs[v].buffer_handle = buffer_handle
        THEN [vs[v] EXCEPT
                !.cursors = mut_guard_release(reconcile(@, "delete", deletes)),
                !.main_cursor_index =
                    main_cursor_index_after(reconcile(vs[v].cursors, "delete", deletes), @)]
        ELSE vs[v]]

\* WordIter: the words of a line, each one a kind and a length: a run of
\* identifier characters, a run of blanks, or a single symbol
WordIter(line) ==
    LET kind(ch) == IF ch \in {" ", "\t"} THEN "Whitespace"
                    ELSE IF ch \in {"a", "b", "d", "e", "f", "h", "i", "X", "Y", "_"}
                         THEN "Identifier" ELSE "Symbol"
        RECURSIVE words(_, _)
        words(from, acc) ==
            IF from > Len(line) THEN acc
            ELSE LET k == kind(line[from])
                     run == IF k = "Symbol" THEN from
                            ELSE CHOOSE e \in from..Len(line) :
                                    /\ \A j \in from..e : kind(line[j]) = k
                                    /\ (e = Len(line) \/ kind(line[e + 1]) # k)
                 IN words(run + 1, Append(acc, [kind |-> k, len |-> run + 1 - from]))
    IN words(1, <<>>)

\* BufferContent::saturate_position: the position pulled back into the content
saturate_position(content, p) ==
    LET line_index == Min(p.line_index, Len(content) - 1) IN
    Pos(line_index, Min(p.column_byte_index, Len(content[line_index + 1])))

\* the movements of CursorMovement
CursorMovements ==
    {"ColumnsForward", "ColumnsBackward", "LinesForward", "LinesBackward",
     "WordsForward", "WordsBackward", "WordEndForward", "Home",
     "HomeNonWhitespace", "End", "FirstLine", "LastLine"}

\* the body of the loop of BufferView::move_cursors for one cursor: the
\* position moves, and with PositionAndAnchor the anchor follows it
move_cursor(content, c, movement, n, kind) ==
    LET last_line_index == Len(content) - 1
        len(l) == Len(content[l + 1])
        line == c.position.line_index
        column == c.position.column_byte_index
        \* the non-blank words among ws[first..], by their indices
        solid(ws, first) == {i \in first..Len(ws) : ws[i].kind # "Whitespace"}
        before(ws, i) == LET RECURSIVE sum(_)
                             sum(j) == IF j = 0 THEN 0 ELSE ws[j].len + sum(j - 1)
                         IN sum(i - 1)
        nth_least(S, k) == CHOOSE i \in S : Cardinality({j \in S : j < i}) = k - 1
        nth_most(S, k) == CHOOSE i \in S : Cardinality({j \in S : j > i}) = k - 1
        RECURSIVE forward(_, _), backward(_, _), words_forward(_, _, _, _),
                  words_backward(_, _, _)
        \* ColumnsForward past the end of line l with k steps left
        forward(l, k) ==
            IF l = last_line_index THEN Pos(l, len(l))
            ELSE IF k <= len(l + 1) THEN Pos(l + 1, k)
            ELSE forward(l + 1, k - len(l + 1) - 1)
        \* ColumnsBackward past the start of line l with k steps left
        backward(l, k) ==
            IF l = 0 THEN Pos(0, 0)
            ELSE IF k < len(l - 1) THEN Pos(l - 1, len(l - 1) - 1 - k)
            ELSE IF k = len(l - 1)
                 THEN IF l - 1 = 0 THEN Pos(0, 0) ELSE Pos(l - 2, len(l - 2))
            ELSE backward(l - 1, k - len(l - 1) - 1)
        \* WordsForward (first = 2, stops where a word starts) and
        \* WordEndForward (first = 1, stops where a word ends)
        words_forward(l, col, k, first) ==
            IF k = 0 THEN Pos(l, col)
            ELSE IF col = len(l)
                 THEN IF l = last_line_index THEN Pos(l, col)
                      ELSE words_forward(l + 1, 0, k - 1, first)
            ELSE LET ws == WordIter(SubSeq(content[l + 1], col + 1, len(l)))
                     found == solid(ws, first)
                 IN IF Cardinality(found) >= k
                    THEN LET i == nth_least(found, k) IN
                         Pos(l, col + before(ws, i) + (IF first = 1 THEN ws[i].len ELSE 0))
                    ELSE words_forward(l, len(l), k - 1 - Cardinality(found), first)
        \* WordsBackward over the first col bytes of line l
        words_backward(l, col, k) ==
            IF k = 0 THEN Pos(l, col)
            ELSE LET ws == WordIter(SubSeq(content[l + 1], 1, col))
                     found == solid(ws, 1)
                     last_kind == IF ws = <<>> THEN "Identifier" ELSE ws[1].kind
                     left == k - Cardinality(found)
                                - (IF last_kind = "Whitespace" THEN 1 ELSE 0)
                 IN IF Cardinality(found) >= k
                    THEN Pos(l, before(ws, nth_most(found, k)))
                    ELSE IF last_kind = "Whitespace" /\ left = 0 THEN Pos(l, 0)
                    ELSE IF l = 0 THEN Pos(0, 0)
                    ELSE words_backward(l - 1, len(l - 1), left - 1)
        first_word == WordIter(content[line + 1])
        position ==
            CASE movement = "ColumnsForward" ->
                    IF n < len(line) - column THEN Pos(line, column + n)
                    ELSE IF n = len(line) - column THEN Pos(line, len(line))
                    ELSE forward(line, n - (len(line) - column) - 1)
              [] movement = "ColumnsBackward" ->
                    IF n = 0 THEN c.position
                    ELSE IF n - 1 < column THEN Pos(line, column - n)
                    ELSE IF n - 1 = column
                         THEN IF line = 0 THEN Pos(0, 0) ELSE Pos(line - 1, len(line - 1))
                    ELSE backward(line, n - 1 - column - 1)
              [] movement = "LinesForward" ->
                    LET l == Min(last_line_index, line + n) IN
                    saturate_position(content, Pos(l, Min(column, len(l))))
              [] movement = "LinesBackward" ->
                    LET l == Max(0, line - n) IN
                    saturate_position(content, Pos(l, Min(column, len(l))))
              [] movement = "WordsForward" -> words_forward(line, column, n, 2)
              [] movement = "WordsBackward" -> words_backward(line, column, n)
              [] movement = "WordEndForward" -> words_forward(line, column, n, 1)
              [] movement = "Home" -> Pos(line, 0)
              [] movement = "HomeNonWhitespace" ->
                    IF first_word # <<>> /\ first_word[1].kind = "Whitespace"
                    THEN Pos(line, first_word[1].len) ELSE Pos(line, 0)
              [] movement = "End" -> Pos(line, len(line))
              [] movement = "FirstLine" -> saturate_position(content, Pos(0, column))
              [] movement = "LastLine" ->
                    saturate_position(content, Pos(last_line_index, column))
    IN IF movement = "ColumnsBackward" /\ n = 0 THEN c
       ELSE [anchor |-> IF kind = "PositionAndAnchor" THEN position ELSE c.anchor,
             position |-> position]

\* the letters of the lines of a buffer, with a blank after the first word
Letters == <<<<"a", " ", "e">>, <<"b", "d", "f">>, <<" ", "h", "i">>>>

\* the buffers the edits start from: up to MaxLines lines of up to
\* MaxLineLen characters
BufferContents ==
    {[l \in 1..n |-> SubSeq(Letters[l], 1, lens[l])] :
        n \in 1..MaxLines, lens \in [1..MaxLines -> 0..MaxLineLen]}

\* the positions of a content: a line, and a column up to the line's length
Positions(content) ==
    UNION {{Pos(l - 1, c) : c \in 0..Len(content[l])} : l \in 1..Len(content)}

\* the cursor collections of a content: up to `most` cursors in ascending
\* order, each one ending before the next begins
CursorLists(content, most) ==
    LET cursors == [anchor : Positions(content), position : Positions(content)] IN
    UNION {{cs \in [1..n -> cursors] :
                \A i \in 1..(n - 1) :
                    ~PosLeq(to_range(cs[i + 1]).from, to_range(cs[i]).to)} :
            n \in 1..most}

\* the texts typed at the cursors
Texts == {<<"X">>, <<"X", "Y">>, <<"X", "\n">>}

\* no edit waits for the views
NoEvents == [kind |-> "none", buffer_handle |-> 0, ranges |-> <<>>]

\* no movement of cursors
NoMovement == [movement |-> "none", n |-> 0, kind |-> "none"]

\* BufferViewCollection::default and a buffer without text
ViewParked ==
    /\ buffer_content = <<<<>>>>
    /\ views = <<>>
    /\ pending = NoEvents
    /\ edited = [kind |-> "none", text |-> <<>>, content |-> <<<<>>>>, views |-> <<>>,
                 count |-> 0, by |-> NoMovement, merged |-> FALSE]

\* A buffer (handle 0) shown by the view that edits it, and a second view
\* with one cursor that shows the same buffer or another one.
ViewStart ==
    /\ buffer_content \in BufferContents
    /\ views \in {<<[buffer_handle |-> 0, cursors |-> cs, main_cursor_index |-> main],
                    [buffer_handle |-> b, cursors |-> other, main_cursor_index |-> 0]>> :
                    cs \in CursorLists(buffer_content, MaxCursors),
                    main \in 0..(MaxCursors - 1),
                    b \in {0, 1},
                    other \in CursorLists(buffer_content, 1)}
    /\ views[1].main_cursor_index < Len(views[1].cursors)
    /\ pending = NoEvents
    /\ edited = [kind |-> "none", text |-> <<>>, content |-> buffer_content,
                 views |-> views, count |-> 0, by |-> NoMovement, merged |-> FALSE]

\* A buffer (handle 0) and the one view that shows it.
CursorStart ==
    /\ buffer_content \in BufferContents
    /\ views \in {<<[buffer_handle |-> 0, cursors |-> cs, main_cursor_index |-> main]>> :
                    cs \in CursorLists(buffer_content, MaxCursors),
                    main \in 0..(MaxCursors - 1)}
    /\ views[1].main_cursor_index < Len(views[1].cursors)
    /\ pending = NoEvents
    /\ edited = [kind |-> "none", text |-> <<>>, content |-> buffer_content,
                 views |-> views, count |-> 0, by |-> NoMovement, merged |-> FALSE]

\* ---- BufferView::insert_text_at_cursor_positions on the first view
\* (buffer_view.rs 408..420): the buffer changes, the inserts are queued
InsertTextAtCursorPositions ==
    /\ pending.kind = "none"
    /\ edited.count < MaxEdits
    /\ views # <<>>
    /\ \E text \in Texts :
       \E r \in {insert_text_at_cursor_positions(buffer_content, views[1].cursors, text)} :
        /\ buffer_content' = r.content
        /\ pending' = [kind |-> "insert", buffer_handle |-> views[1].buffer_handle,
                       ranges |-> r.events]
        /\ edited' = [kind |-> "insert", text |-> text, content |-> buffer_content,
                      views |-> views, count |-> edited.count + 1,
                      by |-> NoMovement, merged |-> FALSE]
    /\ UNCHANGED views
    /\ UNCHANGED <<serverVars, commandVars, historyVars, queueVars, textVars, lspVars, undoVars, insertVars, rpcVars, editVars, wsVars, uriVars, clientVars, scrollVars, columnVars, langVars, aliasVars, keymapVars>>

\* ---- BufferView::delete_text_in_cursor_ranges on the first view
\* (buffer_view.rs 422..433): the buffer changes, the deletes are queued
DeleteTextInCursorRanges ==
    /\ pending.kind = "none"
    /\ edited.count < MaxEdits
    /\ views # <<>>
    /\ \E r \in {delete_text_in_cursor_ranges(buffer_content, views[1].cursors)} :
        /\ buffer_content' = r.content
        /\ pending' = [kind |-> "delete", buffer_handle |-> views[1].buffer_handle,
                       ranges |-> r.events]
        /\ edited' = [kind |-> "delete", text |-> <<>>, content |-> buffer_content,
                      views |-> views, count |-> edited.count + 1,
                      by |-> NoMovement, merged |-> FALSE]
    /\ UNCHANGED views
    /\ UNCHANGED <<serverVars, commandVars, historyVars, queueVars, textVars, lspVars, undoVars, insertVars, rpcVars, editVars, wsVars, uriVars, clientVars, scrollVars, columnVars, langVars, aliasVars, keymapVars>>

\* ---- the views meet the queued inserts (buffer_view.rs 656..672)
OnBufferTextInserts ==
    /\ pending.kind = "insert"
    /\ views' = on_buffer_text_inserts(views, pending.buffer_handle, pending.ranges)
    /\ pending' = NoEvents
    /\ UNCHANGED <<buffer_content, edited>>
    /\ UNCHANGED <<serverVars, commandVars, historyVars, queueVars, textVars, lspVars, undoVars, insertVars, rpcVars, editVars, wsVars, uriVars, clientVars, scrollVars, columnVars, langVars, aliasVars, keymapVars>>

\* ---- the views meet the queued deletes (buffer_view.rs 674..689)
OnBufferRangeDeletes ==
    /\ pending.kind = "delete"
    /\ views' = on_buffer_range_deletes(views, pending.buffer_handle, pending.ranges)
    /\ pending' = NoEvents
    /\ UNCHANGED <<buffer_content, edited>>
    /\ UNCHANGED <<serverVars, commandVars, historyVars, queueVars, textVars, lspVars, undoVars, insertVars, rpcVars, editVars, wsVars, uriVars, clientVars, scrollVars, columnVars, langVars, aliasVars, keymapVars>>

\* (variant: the cursors are left as the movement put them)
MoveCursors_unguarded ==
    /\ pending.kind = "none"
    /\ edited.count < MaxEdits
    /\ \E movement \in CursorMovements, n \in 0..MaxCount,
          kind \in {"PositionAndAnchor", "PositionOnly"} :
        /\ views' = [views EXCEPT ![1].cursors =
                [i \in 1..Len(@) |-> move_cursor(buffer_content, @[i], movement, n, kind)]]
        /\ edited' = [kind |-> "move", text |-> <<>>, content |-> buffer_content,
                      views |-> <<>>, count |-> edited.count + 1,
                      by |-> [movement |-> movement, n |-> n, kind |-> kind],
                      merged |-> FALSE]
    /\ UNCHANGED <<buffer_content, pending>>
    /\ UNCHANGED <<serverVars, commandVars, historyVars, queueVars, textVars, lspVars, undoVars, insertVars, rpcVars, editVars, wsVars, uriVars, clientVars, scrollVars, columnVars, langVars, aliasVars, keymapVars>>

\* ---- BufferView::move_cursors on the first view (buffer_view.rs 54..374):
\* every cursor moves, then the guard is released
MoveCursors ==
    /\ pending.kind = "none"
    /\ edited.count < MaxEdits
    /\ \E movement \in CursorMovements, n \in 0..MaxCount,
          kind \in {"PositionAndAnchor", "PositionOnly"} :
        \E moved \in {[i \in 1..Len(views[1].cursors) |->
                        move_cursor(buffer_content, views[1].cursors[i], movement, n, kind)]} :
            /\ views' = [views EXCEPT
                            ![1].cursors = mut_guard_release(moved),
                            ![1].main_cursor_index = main_cursor_index_after(moved, @)]
            /\ edited' = [kind |-> "move", text |-> <<>>, content |-> buffer_content,
                          views |-> <<>>, count |-> edited.count + 1,
                          by |-> [movement |-> movement, n |-> n, kind |-> kind],
                          merged |-> Len(mut_guard_release(moved)) < Len(moved)]
    /\ UNCHANGED <<buffer_content, pending>>
    /\ UNCHANGED <<serverVars, commandVars, historyVars, queueVars, textVars, lspVars, undoVars, insertVars, rpcVars, editVars, wsVars, uriVars, clientVars, scrollVars, columnVars, langVars, aliasVars, keymapVars>>

\* ---- the buffer is read from its file again and
\* BufferViewCollection::on_buffer_read (buffer_view.rs 691..703) pulls the
\* cursors of the views on it back into what was read
OnBufferRead ==
    /\ pending.kind = "none"
    /\ edited.count < MaxEdits
    /\ \E content \in BufferContents :
        LET saturated(v) == [i \in 1..Len(views[v].cursors) |->
                [anchor |-> saturate_position(content, views[v].cursors[i].anchor),
                 position |-> saturate_position(content, views[v].cursors[i].position)]]
        IN
        /\ buffer_content' = content
        /\ views' = [v \in DOMAIN views |->
                IF views[v].buffer_handle = 0
                THEN [views[v] EXCEPT
                        !.cursors = mut_guard_release(saturated(v)),
                        !.main_cursor_index = main_cursor_index_after(saturated(v), @)]
                ELSE views[v]]
        /\ edited' = [kind |-> "read", text |-> <<>>, content |-> buffer_content,
                      views |-> <<>>, count |-> edited.count + 1,
                      by |-> NoMovement, merged |-> Len(mut_guard_release(saturated(1))) < Len(views[1].cursors)]
    /\ UNCHANGED pending
    /\ UNCHANGED <<serverVars, commandVars, historyVars, queueVars, textVars, lspVars, undoVars, insertVars, rpcVars, editVars, wsVars, uriVars, clientVars, scrollVars, columnVars, langVars, aliasVars, keymapVars>>

\* ---------------------------------------------------------------------
\* The history of command lines (command.rs 395..465).

\* the lines offered to the history: nothing, one that begins with a blank,
\* and three that are kept
HistoryEntries == {<<>>, <<" ", "a">>, <<"a">>, <<"b">>, <<"a", "b">>}

\* VecDeque::with_capacity(HISTORY_CAPACITY).capacity(): space for at least
\* that many; the growable vector of today's library gives just that many,
\* the power-of-two ring of the libraries before it one less than the next
\* power of two above
RingCapacities ==
    {HISTORY_CAPACITY,
     (CHOOSE p \in 1..(2 * HISTORY_CAPACITY + 2) :
        /\ p > HISTORY_CAPACITY
        /\ \E k \in 0..HISTORY_CAPACITY : p = 2 ^ k
        /\ \A q \in (HISTORY_CAPACITY + 1)..(p - 1) : \A k \in 0..HISTORY_CAPACITY : q # 2 ^ k)
        - 1}

\* CommandManager::new before any line is offered
HistoryParked ==
    /\ history = <<>>
    /\ history_capacity = HISTORY_CAPACITY
    /\ offered = <<>>

\* CommandManager::new (command.rs 402..410)
HistoryStart ==
    /\ history = <<>>
    /\ history_capacity \in RingCapacities
    /\ offered = <<>>

\* ---- CommandManager::add_to_history (command.rs 446..465)
AddToHistory ==
    /\ \E entry \in HistoryEntries :
        /\ offered' = entry
        /\ history' =
            IF entry = <<>> \/ entry[1] \in {" ", "\t", "\n", "\r", "\f"} THEN history
            ELSE IF history # <<>> /\ history[Len(history)] = entry THEN history
            ELSE IF Len(history) = history_capacity THEN Append(Tail(history), entry)
            ELSE Append(history, entry)
    /\ UNCHANGED history_capacity
    /\ UNCHANGED <<serverVars, commandVars, viewVars, queueVars, textVars, lspVars, undoVars, insertVars, rpcVars, editVars, wsVars, uriVars, clientVars, scrollVars, columnVars, langVars, aliasVars, keymapVars>>

\* ---------------------------------------------------------------------
\* The double queue of editor events (src/src/editor_event.rs).

\* EditorEventQueue::default
EditorEventQueue == [events |-> <<>>, texts |-> <<>>]

\* EditorEventText::as_str: the slice of the read half's texts
as_str(text, queue) == SubSeq(queue.read.texts, text.start + 1, text.end)

\* EditorEventDoubleQueue::default, nothing enqueued
QueueParked ==
    /\ editor_events = [read |-> EditorEventQueue, write |-> EditorEventQueue]
    /\ enqueued = <<>>
    /\ readable = <<>>

\* ---- EditorEventDoubleQueue::enqueue (editor_event.rs 81..83)
Enqueue ==
    /\ Len(editor_events.write.events) < MaxQueued
    /\ \E kind \in {"Idle", "BufferLoad"} :
        /\ editor_events' = [editor_events EXCEPT
                !.write.events = Append(@, [kind |-> kind])]
        /\ enqueued' = Append(enqueued, [kind |-> kind])
    /\ UNCHANGED readable
    /\ UNCHANGED <<serverVars, commandVars, viewVars, historyVars, textVars, lspVars, undoVars, insertVars, rpcVars, editVars, wsVars, uriVars, clientVars, scrollVars, columnVars, langVars, aliasVars, keymapVars>>

\* ---- EditorEventDoubleQueue::enqueue_buffer_insert (editor_event.rs 85..96)
EnqueueBufferInsert ==
    /\ Len(editor_events.write.events) < MaxQueued
    /\ \E text \in Texts :
        LET start == Len(editor_events.write.texts) IN
        /\ editor_events' = [editor_events EXCEPT
                !.write.texts = @ \o text,
                !.write.events = Append(@,
                    [kind |-> "BufferInsertText",
                     text |-> [start |-> start, end |-> start + Len(text)]])]
        /\ enqueued' = Append(enqueued, [kind |-> "BufferInsertText", text |-> text])
    /\ UNCHANGED readable
    /\ UNCHANGED <<serverVars, commandVars, viewVars, historyVars, textVars, lspVars, undoVars, insertVars, rpcVars, editVars, wsVars, uriVars, clientVars, scrollVars, columnVars, langVars, aliasVars, keymapVars>>

\* (variant: the read half keeps its events when the halves are swapped)
flip_uncleared ==
    /\ editor_events' = [read |-> editor_events.write, write |-> editor_events.read]
    /\ readable' = enqueued
    /\ enqueued' = <<>>
    /\ UNCHANGED <<serverVars, commandVars, viewVars, historyVars, textVars, lspVars, undoVars, insertVars, rpcVars, editVars, wsVars, uriVars, clientVars, scrollVars, columnVars, langVars, aliasVars, keymapVars>>

\* ---- EditorEventDoubleQueue::flip (editor_event.rs 75..79)
flip ==
    /\ editor_events' = [read |-> editor_events.write, write |-> EditorEventQueue]
    /\ readable' = enqueued
    /\ enqueued' = <<>>
    /\ UNCHANGED <<serverVars, commandVars, viewVars, historyVars, textVars, lspVars, undoVars, insertVars, rpcVars, editVars, wsVars, uriVars, clientVars, scrollVars, columnVars, langVars, aliasVars, keymapVars>>

\* ---------------------------------------------------------------------
\* The text of a command line: its tokens and the expansion of its
\* variables (command.rs 156..253, 536..709).

\* the characters that separate tokens (command.rs 156)
WHITESPACE == {" ", "\t", "\r", "\n"}

\* (variant: the closing brace is accepted after any number of `=`)
parse_balanced_command_token_any(text, from) ==
    LET at(i) == text[i + 1]
        RECURSIVE opener(_, _)
        opener(i, depth) ==
            IF i >= Len(text) THEN <<>>
            ELSE IF at(i) = "=" THEN opener(i + 1, depth + 1)
            ELSE IF at(i) = "{" THEN <<i + 1, depth>>
            ELSE <<>>
        open == opener(from, 0)
        RECURSIVE closer(_, _, _)
        closer(i, ending, end) ==
            IF i >= Len(text) THEN [some |-> FALSE]
            ELSE IF at(i) = "}"
                 THEN IF ending
                      THEN [some |-> TRUE, start |-> open[1], end |-> end, rest |-> i + 1]
                      ELSE closer(i + 1, TRUE, i)
            ELSE IF at(i) = "=" THEN closer(i + 1, ending, end)
            ELSE closer(i + 1, FALSE, end)
    IN IF open = <<>> THEN [some |-> FALSE] ELSE closer(open[1], FALSE, open[1])

\* parse_balanced_command_token on text[from..], the text after a `{`: none,
\* or the offsets where the token starts and ends and where the rest starts
parse_balanced_command_token(text, from) ==
    LET at(i) == text[i + 1]
        RECURSIVE opener(_, _)
        opener(i, depth) ==
            IF i >= Len(text) THEN <<>>
            ELSE IF at(i) = "=" THEN opener(i + 1, depth + 1)
            ELSE IF at(i) = "{" THEN <<i + 1, depth>>
            ELSE <<>>
        open == opener(from, 0)
        RECURSIVE closer(_, _, _, _)
        closer(i, ending, matched, end) ==
            IF i >= Len(text) THEN [some |-> FALSE]
            ELSE IF at(i) = "}"
                 THEN IF ending /\ matched = open[2]
                      THEN [some |-> TRUE, start |-> open[1], end |-> end, rest |-> i + 1]
                      ELSE closer(i + 1, TRUE, 0, i)
            ELSE IF at(i) = "=" THEN closer(i + 1, ending, matched + 1, end)
            ELSE closer(i + 1, FALSE, matched, end)
    IN IF open = <<>> THEN [some |-> FALSE] ELSE closer(open[1], FALSE, 0, open[1])

\* CommandTokenizer::next on text[from..]: none, or a token (whether its
\* variables may be expanded, the offsets of its slice) and where the rest
\* starts
CommandTokenizer(text, from) ==
    LET at(i) == text[i + 1]
        RECURSIVE trim_start(_), next_literal_end(_), find(_, _), scan(_, _)
        trim_start(i) ==
            IF i < Len(text) /\ at(i) \in WHITESPACE THEN trim_start(i + 1) ELSE i
        next_literal_end(i) ==
            IF i < Len(text) /\ at(i) \notin WHITESPACE THEN next_literal_end(i + 1) ELSE i
        find(i, chars) ==
            IF i < Len(text) /\ at(i) \notin chars THEN find(i + 1, chars) ELSE i
        previous_text == trim_start(from)
        token(can_expand_variables, start, end, rest) ==
            [some |-> TRUE, can_expand_variables |-> can_expand_variables,
             start |-> start, end |-> end, rest |-> rest]
        scan(q, can_expand_variables) ==
            IF q >= Len(text) THEN [some |-> FALSE]
            ELSE IF at(q) = "@" THEN scan(q + 1, FALSE)
            ELSE IF at(q) \in {"\"", "'"}
                 THEN LET i == find(q + 1, {at(q), "\n"}) IN
                      IF i < Len(text) /\ at(i) = at(q)
                      THEN token(can_expand_variables, q + 1, i, i + 1)
                      ELSE token(can_expand_variables, q, next_literal_end(q + 1),
                                 next_literal_end(q + 1))
            ELSE LET balanced == IF at(q) = "{"
                                 THEN parse_balanced_command_token(text, q + 1)
                                 ELSE [some |-> FALSE]
                     start == IF can_expand_variables THEN q ELSE previous_text
                 IN IF balanced.some
                    THEN token(can_expand_variables, balanced.start, balanced.end,
                               balanced.rest)
                    ELSE token(TRUE, start, next_literal_end(start), next_literal_end(start))
    IN scan(previous_text, TRUE)

\* expand_variables with get_expansion_variable_value: the text with its
\* variables expanded and the number of tokens ("Some"), no token ranges
\* because they do not fit ("None"), or no return at all: a slice whose start
\* is behind its end ("panic"), a loop that stays where it is ("hang")
expand_variables(ctx, command) ==
    LET name_chars == {"a", "b", "c", "d", "e", "f", "g", "h", "i", "j", "k", "l", "m",
                       "n", "o", "p", "q", "r", "s", "t", "u", "v", "w", "x", "y", "z", "-"}
        digits == <<"0", "1", "2", "3", "4", "5", "6", "7", "8", "9">>
        some(value) == [some |-> TRUE, value |-> value]
        none == [some |-> FALSE]
        RECURSIVE trim(_), parse(_, _)
        trim(s) == IF s # <<>> /\ s[1] \in WHITESPACE THEN trim(Tail(s))
                   ELSE IF s # <<>> /\ s[Len(s)] \in WHITESPACE
                        THEN trim(SubSeq(s, 1, Len(s) - 1))
                   ELSE s
        \* str::parse::<u32>: decimal digits, after a `+` or not; -1 for an error
        parse(s, n) ==
            IF s = <<>> THEN n
            ELSE IF \E d \in 1..10 : digits[d] = s[1]
                 THEN parse(Tail(s), 10 * n + (CHOOSE d \in 1..10 : digits[d] = s[1]) - 1)
            ELSE -1
        parse_u32(s) == IF s = <<>> \/ s = <<"+">> THEN -1
                        ELSE IF s[1] = "+" THEN parse(Tail(s), 0) ELSE parse(s, 0)
        current_buffer ==
            IF ctx.current_buffer = NoHandle THEN none ELSE some(ctx.current_buffer)
        get_expansion_variable_value(variable_name, untrimmed) ==
            LET args == trim(untrimmed) IN
            CASE variable_name = <<"b", "u", "f", "f", "e", "r", "-", "i", "n", "d", "e", "x">> ->
                    IF args # <<>> \/ ~current_buffer.some THEN none
                    ELSE some(<<digits[current_buffer.value + 1]>>)
              [] variable_name = <<"b", "u", "f", "f", "e", "r", "-", "p", "a", "t", "h">> ->
                    IF args = <<>>
                    THEN IF current_buffer.some
                         THEN some(ctx.paths[current_buffer.value + 1]) ELSE none
                    ELSE IF parse_u32(args) \in 0..(Len(ctx.paths) - 1)
                         THEN some(ctx.paths[parse_u32(args) + 1]) ELSE none
              [] variable_name = <<"r", "e", "a", "d", "l", "i", "n", "e", "-", "i", "n", "p", "u", "t">> ->
                    IF args # <<>> THEN none ELSE some(ctx.read_line)
              [] variable_name = <<"r", "e", "g", "i", "s", "t", "e", "r">> ->
                    IF Len(args) # 1 \/ args[1] \notin (name_chars \ {"-"}) THEN none
                    ELSE IF args[1] \in DOMAIN ctx.registers
                         THEN some(ctx.registers[args[1]]) ELSE some(<<>>)
              [] OTHER -> none
        RECURSIVE name_end(_, _), find(_, _, _, _), in_token(_, _, _, _), tokens(_, _, _)
        name_end(text, i) ==
            IF i < Len(text) /\ text[i + 1] \in name_chars THEN name_end(text, i + 1) ELSE i
        find(text, i, char, end) ==
            IF i < end /\ text[i + 1] # char THEN find(text, i + 1, char, end) ELSE i
        \* the loop over the variables of one token
        in_token(text, token_rest_index, token_end, rest_index) ==
            IF token_rest_index > token_end THEN [outcome |-> "panic", text |-> text]
            ELSE
            LET variable_start == find(text, token_rest_index, "@", token_end)
                name_to == name_end(text, variable_start + 1)
                skip == name_to - (variable_start + 1) + (IF name_to < Len(text) THEN 1 ELSE 0)
                args_to == find(text, name_to + 1, ")", Len(text))
                value == get_expansion_variable_value(
                            SubSeq(text, variable_start + 2, name_to),
                            SubSeq(text, name_to + 2, args_to))
                delta == Len(value.value) - (args_to + 1 - variable_start)
            IN
            IF variable_start = token_end
            THEN [outcome |-> "Some", text |-> text, rest_index |-> rest_index]
            ELSE IF ~(name_to < Len(text) /\ text[name_to + 1] = "(")
                 THEN IF skip = 0 THEN [outcome |-> "hang", text |-> text]
                      ELSE in_token(text, token_rest_index + skip, token_end, rest_index)
            ELSE IF args_to = Len(text)
                 THEN in_token(text, name_to + 1, token_end, rest_index)
            ELSE IF ~value.some
                 THEN in_token(text, args_to + 1, token_end, rest_index)
            ELSE in_token(SubSeq(text, 1, variable_start) \o value.value
                                \o SubSeq(text, args_to + 2, Len(text)),
                          args_to + 1 + delta, token_end + delta, rest_index + delta)
        \* the loop over the tokens
        tokens(text, rest_index, token_count) ==
            LET token == CommandTokenizer(text, rest_index) IN
            IF ~token.some
            THEN [outcome |-> "Some", text |-> text, token_count |-> token_count]
            ELSE IF token_count >= 255 THEN [outcome |-> "None", text |-> text]
            ELSE IF ~token.can_expand_variables
                 THEN tokens(text, token.rest, token_count + 1)
            ELSE LET r == in_token(text, token.start, token.end, token.rest) IN
                 IF r.outcome # "Some" THEN r
                 ELSE tokens(r.text, r.rest_index, token_count + 1)
    IN tokens(command, 0, 0)

\* the words of the command lines whose variables are expanded
Words ==
    {<<"c", "m", "d">>,
     <<"@", "r", "e", "g", "i", "s", "t", "e", "r", "(", "x", ")">>,
     <<"@", "r", "e", "g", "i", "s", "t", "e", "r", "(", "l", ")">>,
     <<"@", "r", "e", "g", "i", "s", "t", "e", "r", "(", "v", ")">>,
     <<"@", "r", "e", "g", "i", "s", "t", "e", "r", "(", "x", "x", ")">>,
     <<"@", "r", "e", "g", "i", "s", "t", "e", "r", "(", ")">>,
     <<"@", "b", "u", "f", "f", "e", "r", "-", "p", "a", "t", "h", "(", ")">>,
     <<"@", "b", "u", "f", "f", "e", "r", "-", "p", "a", "t", "h", "(", "1", ")">>,
     <<"@", "b", "u", "f", "f", "e", "r", "-", "p", "a", "t", "h", "(", "2", ")">>,
     <<"@", "b", "u", "f", "f", "e", "r", "-", "i", "n", "d", "e", "x", "(", ")">>,
     <<"@", "r", "e", "a", "d", "l", "i", "n", "e", "-", "i", "n", "p", "u", "t", "(", ")">>,
     <<"@", "n", "o", "p", "e", "(", "x", ")">>,
     <<"@", "r", "e", "g", "i", "s", "t", "e", "r", "(", "x">>,
     <<"@", "r", "e", "g", "i", "s", "t", "e", "r">>,
     <<"a", "@">>,
     <<"{", "{", "@", "r", "e", "g", "i", "s", "t", "e", "r", "(", "l", ")", " ", "@", "r", "e", "g", "i", "s", "t", "e", "r", "(", "x", ")", "}", "}">>,
     <<"@", "'", "@", "r", "e", "g", "i", "s", "t", "e", "r", "(", "x", ")", "'">>,
     <<"a", "@", "r", "e", "g", "i", "s", "t", "e", "r", "(", "x", ")", "b", "@", "r", "e", "g", "i", "s", "t", "e", "r", "(", "l", ")">>,
     <<"y", ")">>}

\* the lines: up to MaxWords words with a blank between them
RECURSIVE Lines(_)
Lines(n) ==
    IF n = 1 THEN Words
    ELSE Lines(n - 1) \cup {l \o <<" ">> \o w : l \in Lines(n - 1), w \in Words}

\* the lines with a balanced token: `cmd`, an opener of up to MaxDepth `=`
\* and up to MaxBody characters after it, and the two lines of the test
\* command_tokenizer
BalancedLines ==
    LET opener(n) == <<"{">> \o [i \in 1..n |-> "="] \o <<"{">> IN
    {<<"c", "m", "d", " ">> \o opener(n) \o body :
        n \in 0..MaxDepth, body \in UNION {[1..k -> {"}", "=", "a"}] : k \in 0..MaxBody}}
    \cup {<<"c", "m", "d", " ", "{", "{", "%", "}", "%", "}", "=", "}", "}">>,
          <<"c", "m", "d", " ", "{", "=", "=", "{", "a", "r", "g", "}", "}", "=", "}", "}", "=", "=", "}">>}

\* what the variables stand for: two buffers with their paths, the buffer
\* the client shows if it shows one, the line being read, and the registers
\* that hold text (one of them text that reads like a variable)
ExpansionContexts ==
    {[current_buffer |-> b,
      paths |-> <<<<"p", "0">>, <<"s", "o", "m", "e", "/", "l", "o", "n", "g", "e", "r", "/", "p", "a", "t", "h", "1">>>>,
      read_line |-> <<"i", "n">>,
      registers |-> [k \in {"x", "l", "v"} |->
            CASE k = "x" -> <<"R">>
              [] k = "l" -> <<"a", " ", "l", "o", "n", "g", " ", "r", "e", "g", "i", "s", "t", "e", "r">>
              [] k = "v" -> <<"@", "r", "e", "g", "i", "s", "t", "e", "r", "(", "x", ")">>]] :
        b \in {NoHandle, 0}}

\* nothing expanded, nothing tokenized
NotExpanded == [passes |-> 0, outcome |-> "Some", original |-> <<>>, once |-> <<>>]
NotTokenized == [rest |-> 0, tokens |-> <<>>, done |-> FALSE]

\* no command line
TextParked ==
    /\ command_text = <<>>
    /\ expansion_ctx \in {c \in ExpansionContexts : c.current_buffer = NoHandle}
    /\ expanded = NotExpanded
    /\ tokenizer = NotTokenized

\* a command line arrives
TextStart ==
    /\ command_text \in Lines(MaxWords) \cup BalancedLines
    /\ expansion_ctx \in ExpansionContexts
    /\ expanded = [NotExpanded EXCEPT !.original = command_text]
    /\ tokenizer = NotTokenized

\* ---- expand_variables as try_eval calls it (command.rs 489..491), on the
\* line or on what an earlier call left of it
ExpandVariables ==
    /\ expanded.passes < MaxPasses
    /\ expanded.outcome = "Some"
    /\ tokenizer = NotTokenized
    /\ \E r \in {expand_variables(expansion_ctx, command_text)} :
        /\ command_text' = r.text
        /\ expanded' = [expanded EXCEPT
                !.passes = @ + 1,
                !.outcome = r.outcome,
                !.once = IF expanded.passes = 0 THEN r.text ELSE @]
    /\ UNCHANGED <<expansion_ctx, tokenizer>>
    /\ UNCHANGED <<serverVars, commandVars, viewVars, historyVars, queueVars, lspVars, undoVars, insertVars, rpcVars, editVars, wsVars, uriVars, clientVars, scrollVars, columnVars, langVars, aliasVars, keymapVars>>

\* ---- CommandTokenizer::next (command.rs 205..299): the next token of the
\* line, if there is one
NextToken ==
    /\ ~tokenizer.done
    /\ \E token \in {CommandTokenizer(command_text, tokenizer.rest)} :
        tokenizer' =
            IF token.some
            THEN [rest |-> token.rest, done |-> FALSE,
                  tokens |-> Append(tokenizer.tokens,
                        [from |-> tokenizer.rest, rest |-> token.rest,
                         can_expand_variables |-> token.can_expand_variables,
                         start |-> token.start, end |-> token.end,
                         slice |-> SubSeq(command_text, token.start + 1, token.end)])]
            ELSE [tokenizer EXCEPT !.done = TRUE]
    /\ UNCHANGED <<command_text, expansion_ctx, expanded>>
    /\ UNCHANGED <<serverVars, commandVars, viewVars, historyVars, queueVars, lspVars, undoVars, insertVars, rpcVars, editVars, wsVars, uriVars, clientVars, scrollVars, columnVars, langVars, aliasVars, keymapVars>>

\* ---------------------------------------------------------------------
\* The frames of the language server's output (plugin-lsp protocol.rs
\* 900..1048).  A server event is told by the body it was read from.

\* (variant: a body that has not arrived in full is cut where the buffer ends)
try_get_content_range_cut(buf) ==
    LET find_pattern_end(from, pattern) ==
            LET hits == {p \in from..(Len(buf) - Len(pattern)) :
                            SubSeq(buf, p + 1, p + Len(pattern)) = pattern}
            IN IF hits = {} THEN -1
               ELSE (CHOOSE p \in hits : \A q \in hits : p <= q) + Len(pattern)
        content_length_index == find_pattern_end(0, <<"C", "o", "n", "t", "e", "n", "t", "-", "L", "e", "n", "g", "t", "h", ":", " ">>)
        content_index == find_pattern_end(content_length_index, <<"\r", "\n", "\r", "\n">>)
    IN IF content_length_index = -1 \/ content_index = -1 THEN [some |-> FALSE]
       ELSE [some |-> TRUE, start |-> content_index, end |-> Len(buf)]

\* try_get_content_range: none, or the offsets of the body of the first
\* frame of buf
try_get_content_range(buf) ==
    LET digits == <<"0", "1", "2", "3", "4", "5", "6", "7", "8", "9">>
        find_pattern_end(from, pattern) ==
            LET hits == {p \in from..(Len(buf) - Len(pattern)) :
                            SubSeq(buf, p + 1, p + Len(pattern)) = pattern}
            IN IF hits = {} THEN -1
               ELSE (CHOOSE p \in hits : \A q \in hits : p <= q) + Len(pattern)
        RECURSIVE parse_number(_, _)
        parse_number(i, n) ==
            IF i < Len(buf) /\ \E d \in 1..10 : digits[d] = buf[i + 1]
            THEN parse_number(i + 1, 10 * n + (CHOOSE d \in 1..10 : digits[d] = buf[i + 1]) - 1)
            ELSE n
        content_length_index == find_pattern_end(0, <<"C", "o", "n", "t", "e", "n", "t", "-", "L", "e", "n", "g", "t", "h", ":", " ">>)
        content_index == find_pattern_end(content_length_index, <<"\r", "\n", "\r", "\n">>)
        content_len == parse_number(content_length_index, 0)
    IN IF content_length_index = -1 \/ content_index = -1 THEN [some |-> FALSE]
       ELSE IF Len(buf) - content_index >= content_len
            THEN [some |-> TRUE, start |-> content_index, end |-> content_index + content_len]
       ELSE [some |-> FALSE]

\* the bodies the server sends: none, an object, one that holds the end of a
\* header, one of ten bytes
Bodies == {<<>>, <<"{", "}">>, <<"\r", "\n", "\r", "\n">>, <<"0", "1", "2", "3", "4", "5", "6", "7", "8", "9">>}

\* a frame: the header with the length of the body, and the body
Frame(body) ==
    <<"C", "o", "n", "t", "e", "n", "t", "-", "L", "e", "n", "g", "t", "h", ":", " ">> \o (IF Len(body) < 10 THEN <<>> ELSE <<"1">>)
        \o <<<<"0", "1", "2", "3", "4", "5", "6", "7", "8", "9">>[(Len(body) % 10) + 1]>>
        \o <<"\r", "\n", "\r", "\n">> \o body

\* the streams: up to MaxFrames frames one after the other
RECURSIVE Streams(_)
Streams(n) ==
    IF n = 0 THEN {<<>>}
    ELSE Streams(n - 1) \cup {s \o Frame(b) : s \in Streams(n - 1), b \in Bodies}

\* no iterator over the read buffer
NoIter == [alive |-> FALSE, read_len |-> 0]

\* Protocol::new, and no output of the server
LspParked ==
    /\ read_buf = <<>>
    /\ server_event_iter = NoIter
    /\ stream = <<>>
    /\ delivered = <<>>
    /\ produced = <<>>

\* Protocol::new (protocol.rs 1027..1034) and what the server will send
LspStart ==
    /\ read_buf = <<>>
    /\ server_event_iter = NoIter
    /\ stream \in Streams(MaxFrames) \ {<<>>}
    /\ delivered = <<>>
    /\ produced = <<>>

\* ---- Protocol::parse_events (protocol.rs 1045..1048) with the next bytes
\* of the stream, as many as the read brought
ParseEvents ==
    /\ ~server_event_iter.alive
    /\ \E n \in 1..Len(stream) :
        /\ read_buf' = read_buf \o SubSeq(stream, 1, n)
        /\ delivered' = delivered \o SubSeq(stream, 1, n)
        /\ stream' = SubSeq(stream, n + 1, Len(stream))
    /\ server_event_iter' = [alive |-> TRUE, read_len |-> 0]
    /\ UNCHANGED produced
    /\ UNCHANGED <<serverVars, commandVars, viewVars, historyVars, queueVars, textVars, undoVars, insertVars, rpcVars, editVars, wsVars, uriVars, clientVars, scrollVars, columnVars, langVars, aliasVars, keymapVars>>

\* ---- ServerEventIter::next (protocol.rs 993..1006) yields an event, and
\* ServerEventIter::finish (1008..1011) ends the loop when it yields none
ServerEventIterNext ==
    /\ server_event_iter.alive
    /\ LET slice == SubSeq(read_buf, server_event_iter.read_len + 1, Len(read_buf))
           range == try_get_content_range(slice)
       IN IF slice # <<>> /\ range.some
          THEN /\ server_event_iter' = [server_event_iter EXCEPT !.read_len = @ + range.end]
               /\ produced' = Append(produced, SubSeq(slice, range.start + 1, range.end))
               /\ UNCHANGED read_buf
          ELSE /\ read_buf' = SubSeq(read_buf, server_event_iter.read_len + 1, Len(read_buf))
               /\ server_event_iter' = NoIter
               /\ UNCHANGED produced
    /\ UNCHANGED <<stream, delivered>>
    /\ UNCHANGED <<serverVars, commandVars, viewVars, historyVars, queueVars, textVars, undoVars, insertVars, rpcVars, editVars, wsVars, uriVars, clientVars, scrollVars, columnVars, langVars, aliasVars, keymapVars>>

\* ---------------------------------------------------------------------
\* Undo and redo of the edits of a buffer (buffer_view.rs 502..571).  The
\* buffer keeps its content and its history: the edits of the group that is
\* being made, the committed groups, and how many of them are applied.

\* (variant: the inverse edits come in the order the edits were made)
undo_edits_in_order(group) ==
    [i \in 1..Len(group) |->
        [group[i] EXCEPT !.kind = IF @ = "Insert" THEN "Delete" ELSE "Insert"]]

\* History::undo: the inverse edits of the group, the last edit first
undo_edits(group) ==
    [i \in 1..Len(group) |->
        [group[Len(group) + 1 - i] EXCEPT
            !.kind = IF @ = "Insert" THEN "Delete" ELSE "Insert"]]

\* the buffer applies the edits the history returned, one after the other
RECURSIVE apply_edits(_, _)
apply_edits(content, edits) ==
    IF edits = <<>> THEN content
    ELSE apply_edits(IF Head(edits).kind = "Insert"
                     THEN insert_text(content, Head(edits).range.from, Head(edits).text).content
                     ELSE delete_range(content, Head(edits).range),
                     Tail(edits))

\* the loop of BufferView::undo (buffer_view.rs 515..529) and of
\* BufferView::redo (545..570) over the edits: the cursors left to fix
RECURSIVE fix_cursors_of(_, _, _, _)
fix_cursors_of(edits, cursors, last_edit_kind, redo) ==
    IF edits = <<>> THEN cursors
    ELSE LET edit == Head(edits)
             cleared == IF last_edit_kind # edit.kind THEN <<>> ELSE cursors
             moved == IF redo THEN reconcile(cleared,
                                             IF edit.kind = "Insert" THEN "insert" ELSE "delete",
                                             <<edit.range>>)
                      ELSE cleared
             position == IF edit.kind = "Insert" THEN edit.range.to ELSE edit.range.from
         IN fix_cursors_of(Tail(edits),
                           Append(moved, [anchor |-> edit.range.from, position |-> position]),
                           edit.kind, redo)

\* a history without edits
NoHistory == [edits |-> <<>>, groups |-> <<>>, group_index |-> 0]

\* Buffer::new
UndoParked ==
    /\ edit_buffer = [content |-> <<<<>>>>, history |-> NoHistory]
    /\ fix_cursors = <<>>
    /\ trail = [contents |-> <<>>, ops |-> <<>>]

\* a fresh buffer: a content and no history.  The trail remembers the content
\* at the ends of the groups and the last two of undo and redo.
UndoStart ==
    /\ edit_buffer \in [content : BufferContents, history : {NoHistory}]
    /\ fix_cursors = <<>>
    /\ trail = [contents |-> <<edit_buffer.content>>, ops |-> <<>>]

\* ---- Buffer::insert_text: the text is in the content, the edit in the
\* group that is being made
BufferInsertText ==
    /\ Len(edit_buffer.history.edits) < MaxGroupEdits
    /\ Len(edit_buffer.history.groups) < MaxGroups
    /\ \E position \in Positions(edit_buffer.content), text \in Texts :
       \E r \in {insert_text(edit_buffer.content, position, text)} :
        edit_buffer' = [content |-> r.content,
                        history |-> [edit_buffer.history EXCEPT
                            !.edits = Append(@, [kind |-> "Insert", range |-> r.range,
                                                 text |-> text])]]
    /\ UNCHANGED <<fix_cursors, trail>>
    /\ UNCHANGED <<serverVars, commandVars, viewVars, historyVars, queueVars, textVars, lspVars, insertVars, rpcVars, editVars, wsVars, uriVars, clientVars, scrollVars, columnVars, langVars, aliasVars, keymapVars>>

\* ---- Buffer::delete_range: the text of the range leaves the content, the
\* edit with that text is in the group that is being made
BufferDeleteRange ==
    /\ Len(edit_buffer.history.edits) < MaxGroupEdits
    /\ Len(edit_buffer.history.groups) < MaxGroups
    /\ \E from \in Positions(edit_buffer.content), to \in Positions(edit_buffer.content) :
        LET content == edit_buffer.content
            RECURSIVE rest(_)
            rest(l) == IF l = to.line_index + 1
                       THEN <<"\n">> \o SubSeq(content[l], 1, to.column_byte_index)
                       ELSE <<"\n">> \o content[l] \o rest(l + 1)
            \* the text the range covers, its line breaks as "\n"
            text == IF from.line_index = to.line_index
                    THEN SubSeq(content[from.line_index + 1], from.column_byte_index + 1,
                                to.column_byte_index)
                    ELSE SubSeq(content[from.line_index + 1], from.column_byte_index + 1,
                                Len(content[from.line_index + 1]))
                            \o rest(from.line_index + 2)
        IN
        /\ from # to
        /\ PosLeq(from, to)
        /\ edit_buffer' = [content |-> delete_range(content, [from |-> from, to |-> to]),
                           history |-> [edit_buffer.history EXCEPT
                                !.edits = Append(@, [kind |-> "Delete",
                                    range |-> [from |-> from, to |-> to],
                                    text |-> text])]]
    /\ UNCHANGED <<fix_cursors, trail>>
    /\ UNCHANGED <<serverVars, commandVars, viewVars, historyVars, queueVars, textVars, lspVars, insertVars, rpcVars, editVars, wsVars, uriVars, clientVars, scrollVars, columnVars, langVars, aliasVars, keymapVars>>

\* ---- Buffer::commit_edits: the group is sealed, what could be redone is
\* gone
CommitEdits ==
    /\ edit_buffer.history.edits # <<>>
    /\ LET h == edit_buffer.history IN
        /\ edit_buffer' = [edit_buffer EXCEPT !.history =
                            [edits |-> <<>>,
                             groups |-> Append(SubSeq(h.groups, 1, h.group_index), h.edits),
                             group_index |-> h.group_index + 1]]
        /\ trail' = [contents |-> Append(SubSeq(trail.contents, 1, h.group_index + 1),
                                         edit_buffer.content),
                     ops |-> <<>>]
    /\ UNCHANGED fix_cursors
    /\ UNCHANGED <<serverVars, commandVars, viewVars, historyVars, queueVars, textVars, lspVars, insertVars, rpcVars, editVars, wsVars, uriVars, clientVars, scrollVars, columnVars, langVars, aliasVars, keymapVars>>

\* ---- BufferView::undo (buffer_view.rs 502..530) of a committed group
Undo ==
    /\ edit_buffer.history.edits = <<>>
    /\ edit_buffer.history.group_index > 0
    /\ LET h == edit_buffer.history IN
       \E edits \in {undo_edits(h.groups[h.group_index])} :
        /\ edit_buffer' = [content |-> apply_edits(edit_buffer.content, edits),
                           history |-> [h EXCEPT !.group_index = @ - 1]]
        /\ fix_cursors' = fix_cursors_of(edits, <<>>, "None", FALSE)
        /\ trail' = [trail EXCEPT !.ops =
                        (IF @ = <<>> THEN <<>> ELSE <<@[Len(@)]>>)
                            \o <<[op |-> "undo", group |-> h.group_index,
                                  before |-> edit_buffer.content,
                                  after |-> edit_buffer'.content]>>]
    /\ UNCHANGED <<serverVars, commandVars, viewVars, historyVars, queueVars, textVars, lspVars, insertVars, rpcVars, editVars, wsVars, uriVars, clientVars, scrollVars, columnVars, langVars, aliasVars, keymapVars>>

\* ---- BufferView::redo (buffer_view.rs 532..571) of an undone group
Redo ==
    /\ edit_buffer.history.edits = <<>>
    /\ edit_buffer.history.group_index < Len(edit_buffer.history.groups)
    /\ LET h == edit_buffer.history IN
       \E edits \in {h.groups[h.group_index + 1]} :
        /\ edit_buffer' = [content |-> apply_edits(edit_buffer.content, edits),
                           history |-> [h EXCEPT !.group_index = @ + 1]]
        /\ fix_cursors' = fix_cursors_of(edits, <<>>, "None", TRUE)
        /\ trail' = [trail EXCEPT !.ops =
                        (IF @ = <<>> THEN <<>> ELSE <<@[Len(@)]>>)
                            \o <<[op |-> "redo", group |-> h.group_index + 1,
                                  before |-> edit_buffer.content,
                                  after |-> edit_buffer'.content]>>]
    /\ UNCHANGED <<serverVars, commandVars, viewVars, historyVars, queueVars, textVars, lspVars, insertVars, rpcVars, editVars, wsVars, uriVars, clientVars, scrollVars, columnVars, langVars, aliasVars, keymapVars>>

\* ---------------------------------------------------------------------
\* Insert mode (pepper mode/insert.rs 69..258, and the earlier
\* src/mode/insert.rs 12..58).  The editor is in a mode, with one buffer, its
\* history, and the view of the client, if the client has one.

\* the keys of a client in Insert mode; "Shift-Esc" and "F1" stand for the
\* keys no arm of the match names
InsertKeys ==
    {"Esc", "Ctrl-c", "Left", "Down", "Up", "Right", "Tab", "Enter", "Ctrl-m", "Char",
     "Backspace", "Ctrl-h", "Delete", "Ctrl-w", "Ctrl-n", "Ctrl-p", "Shift-Esc", "F1"}

\* (variant: a move to the left ends the group as well)
is_exit_key_or_left(build, key) == key \in {"Esc", "Ctrl-c", "Left"}

\* the arm of the match that commits and enters the default mode: plain Esc,
\* or Ctrl-c (pepper mode/insert.rs 91..101, src/mode/insert.rs 20..23)
is_exit_key(build, key) == key \in {"Esc", "Ctrl-c"}

\* BufferView::apply_completion (buffer_view.rs 481..500) with the positions
\* update_completions finds for the cursors (mode/insert.rs 341..346): from
\* the last cursor to the first, the text between the position and the
\* cursor is deleted and the completion inserted.  The content and the
\* events, a delete and an insert for each cursor.
RECURSIVE apply_completion(_, _, _, _, _)
apply_completion(content, cursors, i, completion, edits) ==
    IF i = 0 THEN [content |-> content, events |-> edits]
    ELSE LET p == cursors[i].position
             line == content[p.line_index + 1]
             before == IF p.column_byte_index = 0 THEN 0 ELSE p.column_byte_index - 1
             words == WordIter(line)
             start(w) == LET RECURSIVE sum(_)
                             sum(k) == IF k = 0 THEN 0 ELSE sum(k - 1) + words[k].len
                         IN sum(w - 1)
             at == {w \in 1..Len(words) : start(w) <= before /\ before < start(w) + words[w].len}
             position == IF at # {} /\ words[CHOOSE w \in at : TRUE].kind = "Identifier"
                         THEN Pos(p.line_index, start(CHOOSE w \in at : TRUE))
                         ELSE p
             range == to_range([anchor |-> position, position |-> p])
             deleted == delete_range(content, range)
             inserted == insert_text(deleted, position, completion)
         IN apply_completion(inserted.content, cursors, i - 1, completion,
                             edits \o <<[kind |-> "Delete", range |-> range],
                                        [kind |-> "Insert", range |-> inserted.range]>>)

\* the arm of Enter and Ctrl-m (mode/insert.rs 160..188): from the last cursor
\* to the first, a line break and the blanks the line begins with, up to the
\* column of the cursor
RECURSIVE insert_line_breaks(_, _, _, _)
insert_line_breaks(content, cursors, i, inserts) ==
    IF i = 0 THEN [content |-> content, events |-> inserts]
    ELSE LET p == cursors[i].position
             words == WordIter(content[p.line_index + 1])
             indentation_len == IF words # <<>> /\ words[1].kind = "Whitespace"
                                THEN Min(p.column_byte_index, words[1].len) ELSE 0
             r == insert_text(content, p,
                              <<"\n">> \o SubSeq(content[p.line_index + 1], 1, indentation_len))
         IN insert_line_breaks(r.content, cursors, i - 1, Append(inserts, r.range))

\* no editor
InsertParked ==
    /\ editor = [mode |-> "Normal", build |-> "pepper", indent_with_tabs |-> FALSE,
                 tab_size |-> 1, content |-> <<<<>>>>, views |-> <<>>,
                 history |-> [edits |-> <<>>, groups |-> <<>>]]
    /\ session = [keys |-> 0, key |-> "none", edits |-> <<>>]

\* Insert mode was entered: a buffer of full lines, the view of the client on
\* it or none,
\* nothing to commit.  The session remembers the number of its keys, the
\* last one, and its edits.
InsertStart ==
    /\ editor \in UNION {
            {[mode |-> "Insert", build |-> config[1], indent_with_tabs |-> config[2],
              tab_size |-> 2, content |-> content, views |-> vs,
              history |-> [edits |-> <<>>, groups |-> <<>>]] :
                config \in {<<"pepper", TRUE>>, <<"pepper", FALSE>>, <<"src", FALSE>>},
                vs \in {<<>>} \cup {<<[buffer_handle |-> 0, cursors |-> cs,
                                        main_cursor_index |-> 0]>> :
                                     cs \in CursorLists(content, MaxCursors)}} :
            content \in {c \in BufferContents :
                            \A l \in 1..Len(c) : Len(c[l]) = MaxLineLen}}
    /\ session = [keys |-> 0, key |-> "none", edits |-> <<>>]

\* ---- State::on_keys (pepper mode/insert.rs 69..258) and on_event
\* (src/mode/insert.rs 12..58) with the next key of the client: up to MaxKeys
\* keys and then one that leaves.  The picker has an entry to complete with,
\* or none; with cursors that share a line it has none (what the buffer does
\* with a range past the end of a line is not in the source).  The events of
\* a completion meet the view before the next key.
OnKeys ==
    /\ editor.mode = "Insert"
    /\ \/ /\ editor.views = <<>>
          /\ editor' = [editor EXCEPT !.mode = "Normal"]
          /\ session' = [session EXCEPT !.keys = @ + 1, !.key = "none"]
       \/ /\ editor.views # <<>>
          /\ \E key \in InsertKeys, completion \in {<<>>, <<"X", "Y">>} :
             LET content == editor.content
                 cursors == editor.views[1].cursors
                 \* the arm of the match the key takes
                 arm == IF editor.build = "pepper"
                        THEN CASE key \in {"Left", "Down", "Up", "Right"} -> "move"
                               [] key \in {"Tab", "Char"} -> "insert"
                               [] key \in {"Enter", "Ctrl-m"} -> "line break"
                               [] key \in {"Backspace", "Ctrl-h", "Delete", "Ctrl-w"} -> "delete"
                               [] key \in {"Ctrl-n", "Ctrl-p"} -> "completion"
                               [] OTHER -> "none"
                        ELSE CASE key \in {"Tab", "Ctrl-m", "Char"} -> "insert"
                               [] key \in {"Ctrl-h", "Delete"} -> "delete"
                               [] OTHER -> "none"
                 movement == CASE key \in {"Left", "Backspace", "Ctrl-h"} -> "ColumnsBackward"
                               [] key \in {"Right", "Delete"} -> "ColumnsForward"
                               [] key = "Down" -> "LinesForward"
                               [] key = "Up" -> "LinesBackward"
                               [] OTHER -> "WordsBackward"
                 \* the events the buffer queued meet the view, one event after
                 \* the other; an event holds the ranges written under one guard
                 RECURSIVE trigger_event_handlers(_, _)
                 trigger_event_handlers(vs, queued) ==
                    IF queued = <<>> THEN vs
                    ELSE trigger_event_handlers(
                            IF Head(queued).kind = "Insert"
                            THEN on_buffer_text_inserts(vs, 0, Head(queued).ranges)
                            ELSE on_buffer_range_deletes(vs, 0, Head(queued).ranges),
                            Tail(queued))
                 text == CASE key = "Char" -> <<"X">>
                           [] key = "Ctrl-m" -> <<"\n">>
                           [] OTHER -> IF editor.indent_with_tabs \/ editor.build = "src"
                                       THEN <<"\t">>
                                       ELSE [i \in 1..editor.tab_size |-> " "]
             IN
             /\ completion # <<>> =>
                    /\ arm = "completion"
                    /\ \A i, j \in 1..Len(cursors) :
                            i # j => cursors[i].position.line_index
                                        # cursors[j].position.line_index
             /\ session.keys < MaxKeys \/ is_exit_key(editor.build, key)
             /\ IF is_exit_key(editor.build, key)
                THEN \* Buffer::commit_edits: the edits to commit become a group
                     /\ editor' = [editor EXCEPT
                            !.history = IF @.edits = <<>> THEN @
                                        ELSE [edits |-> <<>>,
                                              groups |-> Append(@.groups, @.edits)],
                            !.mode = "Normal"]
                     /\ session' = [session EXCEPT !.keys = @ + 1, !.key = key]
                ELSE \E moved \in {IF arm \in {"move", "delete"}
                                    THEN [i \in 1..Len(cursors) |->
                                            move_cursor(content, cursors[i], movement, 1,
                                                        IF arm = "move" THEN "PositionAndAnchor"
                                                        ELSE "PositionOnly")]
                                    ELSE cursors} :
                     \E vs \in {IF arm \in {"move", "delete"}
                                 THEN <<[editor.views[1] EXCEPT
                                            !.cursors = mut_guard_release(moved),
                                            !.main_cursor_index =
                                                main_cursor_index_after(moved, @)]>>
                                 ELSE editor.views} :
                     \E r \in {CASE arm = "insert" ->
                                        insert_text_at_cursor_positions(content, cursors, text)
                                 [] arm = "line break" ->
                                        insert_line_breaks(content, cursors, Len(cursors), <<>>)
                                 [] arm = "delete" ->
                                        delete_text_in_cursor_ranges(content, vs[1].cursors)
                                 [] arm = "completion" /\ completion # <<>> ->
                                        apply_completion(content, cursors, Len(cursors),
                                                         completion, <<>>)
                                 [] OTHER -> [content |-> content, events |-> <<>>]} :
                     \* the edits of the history, and the events by their guards
                     \E edits \in {[i \in 1..Len(r.events) |->
                                        IF arm \in {"insert", "line break"}
                                        THEN [kind |-> "Insert", range |-> r.events[i]]
                                        ELSE IF arm = "delete"
                                        THEN [kind |-> "Delete", range |-> r.events[i]]
                                        ELSE r.events[i]]} :
                     \E queued \in {IF edits = <<>> THEN <<>>
                                     ELSE IF arm = "completion"
                                     THEN [i \in 1..Len(edits) |->
                                            [kind |-> edits[i].kind,
                                             ranges |-> <<edits[i].range>>]]
                                     ELSE <<[kind |-> edits[1].kind,
                                             ranges |-> r.events]>>} :
                     /\ editor' = [editor EXCEPT
                            !.content = r.content,
                            !.views = trigger_event_handlers(vs, queued),
                            !.history.edits = @ \o edits]
                     /\ session' = [keys |-> session.keys + 1, key |-> key,
                                    edits |-> session.edits \o edits]
    /\ UNCHANGED <<serverVars, commandVars, viewVars, historyVars, queueVars, textVars, lspVars, undoVars, rpcVars, editVars, wsVars, uriVars, clientVars, scrollVars, columnVars, langVars, aliasVars, keymapVars>>

\* ---------------------------------------------------------------------
\* The requests to the language server and the table of the ones that wait
\* for a response (plugin-lsp protocol.rs 1027..1162).

\* the methods of the requests
Methods == {"initialize", "textDocument/hover"}

\* no method: the None of take
NoMethod == "None"

\* PendingRequestColection::add: the first slot whose id is 0 takes the
\* request, or a new slot does
add(table, id, method) ==
    LET free == {i \in 1..Len(table) : table[i].id = 0} IN
    IF free # {}
    THEN [table EXCEPT ![CHOOSE i \in free : \A j \in free : i <= j] =
                                [id |-> id, method |-> method]]
    ELSE Append(table, [id |-> id, method |-> method])

\* (variant: the request found stays in the table)
take_and_keep(table, id) ==
    LET found == {i \in 1..Len(table) : table[i].id = id} IN
    IF found = {} THEN [method |-> NoMethod, pending_requests |-> table]
    ELSE [method |-> table[CHOOSE i \in found : \A j \in found : i <= j].method,
          pending_requests |-> table]

\* PendingRequestColection::take: the first request with the id leaves the
\* table by swap_remove (the last one takes its place); its method, or none
take(table, id) ==
    LET found == {i \in 1..Len(table) : table[i].id = id} IN
    IF found = {} THEN [method |-> NoMethod, pending_requests |-> table]
    ELSE LET i == CHOOSE k \in found : \A j \in found : k <= j
             n == Len(table)
         IN [method |-> table[i].method,
             pending_requests |->
                SubSeq([table EXCEPT ![i] = table[n]], 1, n - 1)]

\* Protocol::new and PendingRequestColection::default; nothing was sent
RpcParked ==
    /\ next_request_id = 1
    /\ pending_requests = <<>>
    /\ rpc = [issued |-> <<>>, added |-> {}, waiting |-> <<>>, sent |-> 0,
              taken |-> [id |-> 0, method |-> NoMethod, expected |-> NoMethod]]

\* ---- Protocol::request (protocol.rs 1050..1069): the id is the counter,
\* the counter goes on by one
ProtocolRequest ==
    /\ next_request_id <= MaxIssued
    /\ \E method \in Methods :
        /\ next_request_id' = next_request_id + 1
        /\ rpc' = [rpc EXCEPT !.issued = Append(@, [id |-> next_request_id,
                                                    method |-> method]),
                              !.sent = @ + 1]
    /\ UNCHANGED pending_requests
    /\ UNCHANGED <<serverVars, commandVars, viewVars, historyVars, queueVars, textVars, lspVars, undoVars, insertVars, editVars, wsVars, uriVars, clientVars, scrollVars, columnVars, langVars, aliasVars, keymapVars>>

\* ---- Protocol::notify (1071..1084) and Protocol::respond (1086..1109): a
\* body is sent
ProtocolNotify ==
    /\ rpc.sent < MaxIssued + MaxIssued
    /\ rpc' = [rpc EXCEPT !.sent = @ + 1]
    /\ UNCHANGED <<next_request_id, pending_requests>>
    /\ UNCHANGED <<serverVars, commandVars, viewVars, historyVars, queueVars, textVars, lspVars, undoVars, insertVars, editVars, wsVars, uriVars, clientVars, scrollVars, columnVars, langVars, aliasVars, keymapVars>>

\* ---- PendingRequestColection::add (1140..1150) with the id of a request
\* that was issued and its method, once for a request
PendingAdd ==
    /\ \E i \in 1..Len(rpc.issued) :
        /\ rpc.issued[i].id \notin rpc.added
        /\ pending_requests' = add(pending_requests, rpc.issued[i].id, rpc.issued[i].method)
        /\ rpc' = [rpc EXCEPT !.waiting = Append(@, rpc.issued[i]),
                              !.added = @ \cup {rpc.issued[i].id}]
    /\ UNCHANGED next_request_id
    /\ UNCHANGED <<serverVars, commandVars, viewVars, historyVars, queueVars, textVars, lspVars, undoVars, insertVars, editVars, wsVars, uriVars, clientVars, scrollVars, columnVars, langVars, aliasVars, keymapVars>>

\* ---- PendingRequestColection::take (1152..1161) with the id of a response:
\* one that waits, one that was taken, one that was never issued, or 0
PendingTake ==
    /\ \E id \in 0..(MaxIssued + 1) :
       \E r \in {take(pending_requests, id)} :
        /\ pending_requests' = r.pending_requests
        /\ rpc' = [rpc EXCEPT
                    !.waiting = SelectSeq(@, LAMBDA w : w.id # id),
                    !.taken = [id |-> id, method |-> r.method,
                               expected |->
                                    IF \E w \in 1..Len(rpc.waiting) : rpc.waiting[w].id = id
                                    THEN rpc.waiting[CHOOSE w \in 1..Len(rpc.waiting) :
                                                        rpc.waiting[w].id = id].method
                                    ELSE NoMethod]]
    /\ UNCHANGED next_request_id
    /\ UNCHANGED <<serverVars, commandVars, viewVars, historyVars, queueVars, textVars, lspVars, undoVars, insertVars, editVars, wsVars, uriVars, clientVars, scrollVars, columnVars, langVars, aliasVars, keymapVars>>

\* ---------------------------------------------------------------------
\* The text edits of the language server (plugin-lsp protocol.rs 381..436).

\* TextEdit::apply_edits: each edit of the list in turn has its range moved
\* across the deletes and inserts made for the edits before it, then the
\* range is deleted and the new text inserted at its start.  The content
\* and the edits of the buffer.
RECURSIVE text_edit_apply_edits(_, _, _, _)
text_edit_apply_edits(content, edits, temp_edits, made) ==
    IF edits = <<>> THEN [content |-> content, edits |-> made]
    ELSE LET RECURSIVE across(_, _)
             across(p, k) ==
                IF k > Len(temp_edits) THEN p
                ELSE across(position_insert(position_delete(p, temp_edits[k][1]),
                                            temp_edits[k][2]),
                            k + 1)
             range == to_range([anchor |-> Head(edits).range.start,
                                position |-> Head(edits).range.end])
             delete == [from |-> across(range.from, 1), to |-> across(range.to, 1)]
             inserted == insert_text(delete_range(content, delete), delete.from,
                                     Head(edits).new_text)
         IN text_edit_apply_edits(inserted.content, Tail(edits),
                                  Append(temp_edits, <<delete, inserted.range>>),
                                  made \o <<[kind |-> "Delete", range |-> delete],
                                            [kind |-> "Insert", range |-> inserted.range]>>)

\* the documents the server edits
Documents == {<<<<"a", "b", "c", "d">>>>, <<<<"a", "b">>, <<"c", "d">>>>}

\* the texts the server puts in
NewTexts == {<<>>, <<"X">>, <<"Y", "\n">>}

\* the edits of a document: a range from a position to one not before it,
\* and a text
TextEdits(content) ==
    {e \in {[range |-> [start |-> from, end |-> to], new_text |-> text] :
                from \in Positions(content), to \in Positions(content),
                text \in NewTexts} :
        PosLeq(e.range.start, e.range.end)}

\* the lists of edits whose ranges do not overlap: of any two, one ends where
\* the other starts or before
EditLists(content) ==
    UNION {{es \in [1..n -> TextEdits(content)] :
                \A i, j \in 1..n :
                    i < j => \/ PosLeq(es[i].range.end, es[j].range.start)
                             \/ PosLeq(es[j].range.end, es[i].range.start)} :
            n \in 1..MaxTextEdits}

\* no document
TextEditParked ==
    /\ document = [content |-> <<<<>>>>, history |-> [edits |-> <<>>, groups |-> <<>>]]
    /\ text_edits = <<>>
    /\ applied = [done |-> FALSE, original |-> <<<<>>>>]

\* a document without edits to commit, and the edits of a response
TextEditStart ==
    /\ document \in [content : Documents, history : {[edits |-> <<>>, groups |-> <<>>]}]
    /\ text_edits \in EditLists(document.content)
    /\ applied = [done |-> FALSE, original |-> document.content]

\* ---- TextEdit::apply_edits (protocol.rs 381..436): the edits are made and
\* committed as one group
ApplyEdits ==
    /\ ~applied.done
    /\ text_edits # <<>>
    /\ \E r \in {text_edit_apply_edits(document.content, text_edits, <<>>, <<>>)} :
        document' = [content |-> r.content,
                     history |-> [edits |-> <<>>,
                                  groups |-> Append(document.history.groups, r.edits)]]
    /\ applied' = [applied EXCEPT !.done = TRUE]
    /\ UNCHANGED text_edits
    /\ UNCHANGED <<serverVars, commandVars, viewVars, historyVars, queueVars, textVars, lspVars, undoVars, insertVars, rpcVars, wsVars, uriVars, clientVars, scrollVars, columnVars, langVars, aliasVars, keymapVars>>

\* ---------------------------------------------------------------------
\* The file operations of a workspace edit (plugin-lsp protocol.rs 686..746).
\* A file is absent or holds a text; the operating system may refuse an
\* operation for a reason of its own (os_error).

\* the paths under the root
FilePaths == {"a", "b"}

\* no file at a path
Absent == "absent"

\* the changes of a response: CreateFile, RenameFile, DeleteFile of a file
FileChanges ==
    [kind : {"create"}, uri : FilePaths, overwrite : BOOLEAN,
     ignore_if_exists : BOOLEAN, os_error : BOOLEAN]
    \cup {c \in [kind : {"rename"}, old_uri : FilePaths, uri : FilePaths,
                 overwrite : BOOLEAN, ignore_if_exists : BOOLEAN, os_error : BOOLEAN] :
            c.old_uri # c.uri}
    \cup [kind : {"delete"}, uri : FilePaths, ignore_if_not_exists : BOOLEAN,
          os_error : BOOLEAN]

\* the loop over document_changes of WorkspaceEdit::apply: for each change
\* the files before it, the files after it, and whether an error was logged.
\* OpenOptions::create_new fails on a file that exists, truncate and create
\* open any file and empty it; fs::rename fails without the old file and
\* otherwise replaces the new one; fs::remove_file fails without the file.
RECURSIVE workspace_edit_apply(_, _, _)
workspace_edit_apply(fs, changes, steps) ==
    IF changes = <<>> THEN [files |-> fs, steps |-> steps]
    ELSE LET op == Head(changes)
             create_fails == op.os_error \/ (~op.overwrite /\ fs[op.uri] # Absent)
             rename_called == op.overwrite \/ fs[op.uri] = Absent \/ ~op.ignore_if_exists
             rename_fails == op.os_error \/ fs[op.old_uri] = Absent
             remove_fails == op.os_error \/ fs[op.uri] = Absent
             after ==
                CASE op.kind = "create" ->
                        IF create_fails THEN fs ELSE [fs EXCEPT ![op.uri] = ""]
                  [] op.kind = "rename" ->
                        IF rename_called /\ ~rename_fails
                        THEN [fs EXCEPT ![op.uri] = fs[op.old_uri], ![op.old_uri] = Absent]
                        ELSE fs
                  [] op.kind = "delete" ->
                        IF remove_fails THEN fs ELSE [fs EXCEPT ![op.uri] = Absent]
             logged ==
                CASE op.kind = "create" -> create_fails /\ ~op.ignore_if_exists
                  [] op.kind = "rename" ->
                        rename_called /\ rename_fails /\ ~op.ignore_if_exists
                  [] op.kind = "delete" -> remove_fails /\ ~op.ignore_if_not_exists
         IN workspace_edit_apply(after, Tail(changes),
                                 Append(steps, [change |-> op, before |-> fs,
                                                after |-> after, logged |-> logged]))

\* no files, no changes
WorkspaceParked ==
    /\ files = [p \in FilePaths |-> Absent]
    /\ document_changes = <<>>
    /\ workspace = [applied |-> FALSE, steps |-> <<>>]

\* the files under the root and the changes of a response
WorkspaceStart ==
    /\ files \in [FilePaths -> {Absent, "old"}]
    /\ document_changes \in UNION {[1..n -> FileChanges] : n \in 1..MaxChanges}
    /\ workspace = [applied |-> FALSE, steps |-> <<>>]

\* ---- WorkspaceEdit::apply (protocol.rs 616..746) with the changes
WorkspaceEditApply ==
    /\ ~workspace.applied
    /\ document_changes # <<>>
    /\ \E r \in {workspace_edit_apply(files, document_changes, <<>>)} :
        /\ files' = r.files
        /\ workspace' = [applied |-> TRUE, steps |-> r.steps]
    /\ UNCHANGED document_changes
    /\ UNCHANGED <<serverVars, commandVars, viewVars, historyVars, queueVars, textVars, lspVars, undoVars, insertVars, rpcVars, editVars, uriVars, clientVars, scrollVars, columnVars, langVars, aliasVars, keymapVars>>

\* URIs of files (plugin-lsp protocol.rs 22..88). A path is a tuple of
\* characters; std::path::Path compares, strips and iterates by components,
\* so a parsed path is kept as its components. `windows` is the target of
\* the build: there `\` separates too and `C:` is a disk prefix.

\* std::path::is_separator
is_sep(windows, c) == c = "/" \/ (windows /\ c = "\\")

\* the pieces of a path between separators
RECURSIVE split(_, _, _, _)
split(windows, s, cur, acc) ==
    IF s = <<>> THEN Append(acc, cur)
    ELSE IF is_sep(windows, Head(s)) THEN split(windows, Tail(s), <<>>, Append(acc, cur))
    ELSE split(windows, Tail(s), Append(cur, Head(s)), acc)

\* Path::components: a disk prefix (Windows), the root, then the names; empty
\* pieces and `.` are skipped, except a `.` that starts a path with no root
components(windows, s) ==
    LET has_prefix == windows /\ Len(s) >= 2 /\ s[2] = ":"
        rest == IF has_prefix THEN SubSeq(s, 3, Len(s)) ELSE s
        has_root == rest # <<>> /\ is_sep(windows, rest[1])
        toks == split(windows, rest, <<>>, <<>>)
        numbered == [k \in 1..Len(toks) |-> [k |-> k, tok |-> toks[k]]]
        kept == SelectSeq(numbered, LAMBDA t :
                    /\ t.tok # <<>>
                    /\ t.tok = <<".">> => t.k = 1 /\ ~has_root)
        body == [k \in 1..Len(kept) |->
                    IF kept[k].tok = <<".">> THEN [kind |-> "CurDir", text |-> <<>>]
                    ELSE IF kept[k].tok = <<".", ".">> THEN [kind |-> "ParentDir", text |-> <<>>]
                    ELSE [kind |-> "Normal", text |-> kept[k].tok]]
    IN  (IF has_prefix THEN <<[kind |-> "Prefix", text |-> <<s[1]>>]>> ELSE <<>>)
            \o (IF has_root THEN <<[kind |-> "RootDir", text |-> <<>>]>> ELSE <<>>)
            \o body

\* Path::strip_prefix: the components after those of base, or none
NoPath == <<[kind |-> "NoPath", text |-> <<>>]>>

strip_prefix(comps, base) ==
    IF Len(base) <= Len(comps) /\ SubSeq(comps, 1, Len(base)) = base
    THEN SubSeq(comps, Len(base) + 1, Len(comps))
    ELSE NoPath

\* Path::join of a relative path
path_join(windows, root_path, rel) ==
    IF root_path # <<>> /\ is_sep(windows, root_path[Len(root_path)])
    THEN root_path \o rel
    ELSE root_path \o <<"/">> \o rel

\* fmt_path of Uri::fmt: the components with `/` between them; after a disk
\* prefix the root writes nothing
RECURSIVE fmt_path(_, _, _, _)
fmt_path(comps, k, has_prefix, out) ==
    IF k > Len(comps) THEN out
    ELSE LET c == comps[k]
             slash == IF k = Len(comps) THEN <<>> ELSE <<"/">>
         IN  CASE c.kind = "Prefix" -> fmt_path(comps, k + 1, TRUE, out \o c.text \o <<":">> \o slash)
               [] c.kind = "RootDir" ->
                    IF has_prefix THEN fmt_path(comps, k + 1, has_prefix, out)
                    ELSE fmt_path(comps, k + 1, has_prefix, out \o slash)
               [] c.kind = "CurDir" -> fmt_path(comps, k + 1, has_prefix, out \o <<".">> \o slash)
               [] c.kind = "ParentDir" -> fmt_path(comps, k + 1, has_prefix, out \o <<".", ".">> \o slash)
               [] OTHER -> fmt_path(comps, k + 1, has_prefix, out \o c.text \o slash)

FileScheme == <<"f", "i", "l", "e", ":", "/", "/">>

\* Uri::fmt of Uri::Path(path)
uri_fmt(windows, path_text) ==
    FileScheme \o <<"/">> \o fmt_path(components(windows, path_text), 1, FALSE, <<>>)

\* the URI of a path relative to the root: that of the root joined with it
uri_display(windows, root_path, rel) == uri_fmt(windows, path_join(windows, root_path, rel))

UriParseError == <<[kind |-> "UriParseError", text |-> <<>>]>>

\* Uri::parse: the components of the path, or UriParseError
uri_parse(windows, root_path, text) ==
    IF Len(text) < Len(FileScheme) \/ SubSeq(text, 1, Len(FileScheme)) # FileScheme
    THEN UriParseError
    ELSE LET with_root == SubSeq(text, Len(FileScheme) + 1, Len(text))
         IN  IF with_root = <<>> \/ with_root[1] # "/"
             THEN UriParseError
             ELSE LET uri_without_root == Tail(with_root)
                      first == components(windows, uri_without_root)
                      chosen == IF first # <<>> /\ first[1].kind = "Prefix"
                                THEN uri_without_root ELSE with_root
                      whole == components(windows, chosen)
                      stripped == strip_prefix(whole, components(windows, root_path))
                  IN  IF stripped = NoPath THEN whole ELSE stripped

\* the names a path is made of
MaxComponents == 3

PathNames == {<<".">>, <<".", ".">>, <<"x">>, <<"h">>}

RECURSIVE join_names(_)
join_names(names) ==
    IF names = <<>> THEN <<>>
    ELSE IF Len(names) = 1 THEN names[1]
    ELSE names[1] \o <<"/">> \o join_names(Tail(names))

\* paths relative to a root
RelativePaths == {join_names(names) : names \in UNION {[1..n -> PathNames] : n \in 0..MaxComponents}}

\* the roots: a directory, the root of the file system, a disk of Windows
UriRoots ==
    {[windows |-> FALSE, root |-> <<"/", "h">>],
     [windows |-> FALSE, root |-> <<"/">>],
     [windows |-> TRUE, root |-> <<"C", ":", "\\", "h">>],
     [windows |-> TRUE, root |-> <<"C", ":", "/">>]}

\* the URIs of tests::parse_uri, a server's own
ServerUris ==
    {FileScheme \o <<"/", "h", "/", "x">>,
     FileScheme \o <<"/", "x", "/", "h">>,
     FileScheme \o <<"/", "C", ":", "/", "x">>,
     <<"x">>}

NoUri == <<"no uri">>

UriParked == uri_input = [windows |-> FALSE, root |-> <<"/">>, path |-> <<>>] /\ uri_output = [uri |-> NoUri, parsed |-> NoPath, ours |-> FALSE]

UriStart == uri_input \in {[windows |-> r.windows, root |-> r.root, path |-> p] : r \in UriRoots, p \in RelativePaths} /\ uri_output = [uri |-> NoUri, parsed |-> NoPath, ours |-> FALSE]

\* the client names a file of the workspace to the server
UriDisplay ==
    /\ uri_output.uri = NoUri
    /\ uri_output' = [uri |-> uri_display(uri_input.windows, uri_input.root, uri_input.path), parsed |-> NoPath, ours |-> TRUE]
    /\ UNCHANGED uri_input
    /\ UNCHANGED <<serverVars, commandVars, viewVars, historyVars, queueVars, textVars, lspVars, undoVars, insertVars, rpcVars, editVars, wsVars, clientVars, scrollVars, columnVars, langVars, aliasVars, keymapVars>>

\* the server names a file
UriReceive ==
    /\ uri_output.uri = NoUri
    /\ \E text \in ServerUris :
        uri_output' = [uri |-> text, parsed |-> NoPath, ours |-> FALSE]
    /\ UNCHANGED uri_input
    /\ UNCHANGED <<serverVars, commandVars, viewVars, historyVars, queueVars, textVars, lspVars, undoVars, insertVars, rpcVars, editVars, wsVars, clientVars, scrollVars, columnVars, langVars, aliasVars, keymapVars>>

\* the client reads a URI
UriParse ==
    /\ uri_output.uri # NoUri
    /\ uri_output.parsed = NoPath
    /\ uri_output' = [uri_output EXCEPT !.parsed = uri_parse(uri_input.windows, uri_input.root, uri_output.uri)]
    /\ UNCHANGED uri_input
    /\ UNCHANGED <<serverVars, commandVars, viewVars, historyVars, queueVars, textVars, lspVars, undoVars, insertVars, rpcVars, editVars, wsVars, clientVars, scrollVars, columnVars, langVars, aliasVars, keymapVars>>

\* Clients, their piped input and the views of the editor (client.rs,
\* buffer_view.rs 583..654). Handles count from 0; slot i of a collection
\* is element i + 1 of its sequence. The buffer collection, the decoding of
\* piped bytes and the navigation history are not in these sources: a
\* buffer slot list reuses its lowest free slot, text is appended at the end
\* of a buffer, and after a buffer closes the history leaves a client with
\* no view or with one of its views on another buffer.

\* the clients that may be connected
ClientIndexes == {0, 1}

\* the piped characters a buffer may hold, the operations of a run
MaxContent == 2

MaxClientSteps == 8

\* the slots of a collection that are not alive
DeadSlots(coll) == {i \in 1..Len(coll) : ~coll[i].alive}

\* BufferViewCollection::add_new that takes the last dead slot
add_new_last_dead(coll, client_handle, buffer_handle) ==
    IF DeadSlots(coll) # {}
    THEN LET i == CHOOSE d \in DeadSlots(coll) : \A e \in DeadSlots(coll) : e <= d
         IN  [buffer_views |-> [coll EXCEPT ![i] = [@ EXCEPT !.alive = TRUE, !.client_handle = client_handle, !.buffer_handle = buffer_handle]],
              handle |-> i - 1]
    ELSE [buffer_views |-> Append(coll, [alive |-> TRUE, handle |-> Len(coll), client_handle |-> client_handle, buffer_handle |-> buffer_handle]),
          handle |-> Len(coll)]

\* BufferViewCollection::add_new with BufferView::reset: the first view that
\* is not alive is reset, or a view is pushed
add_new(coll, client_handle, buffer_handle) ==
    IF DeadSlots(coll) # {}
    THEN LET i == CHOOSE d \in DeadSlots(coll) : \A e \in DeadSlots(coll) : d <= e
         IN  [buffer_views |-> [coll EXCEPT ![i] = [@ EXCEPT !.alive = TRUE, !.client_handle = client_handle, !.buffer_handle = buffer_handle]],
              handle |-> i - 1]
    ELSE [buffer_views |-> Append(coll, [alive |-> TRUE, handle |-> Len(coll), client_handle |-> client_handle, buffer_handle |-> buffer_handle]),
          handle |-> Len(coll)]

\* BufferViewCollection::remove_buffer_views_with_client
remove_buffer_views_with_client(coll, client_handle) ==
    [i \in 1..Len(coll) |->
        IF coll[i].alive /\ coll[i].client_handle = client_handle
        THEN [coll[i] EXCEPT !.alive = FALSE] ELSE coll[i]]

\* BufferViewCollection::remove_buffer_views_with_buffer
remove_buffer_views_with_buffer(coll, buffer_handle) ==
    [i \in 1..Len(coll) |->
        IF coll[i].alive /\ coll[i].buffer_handle = buffer_handle
        THEN [coll[i] EXCEPT !.alive = FALSE] ELSE coll[i]]

\* BufferViewCollection::buffer_view_handle_from_buffer_handle
buffer_view_handle_from_buffer_handle(coll, client_handle, buffer_handle) ==
    LET found == {i \in 1..Len(coll) :
                    coll[i].alive /\ coll[i].buffer_handle = buffer_handle /\ coll[i].client_handle = client_handle}
    IN  IF found # {}
        THEN [buffer_views |-> coll, handle |-> (CHOOSE i \in found : \A j \in found : i <= j) - 1]
        ELSE add_new(coll, client_handle, buffer_handle)

\* a buffer that was closed: its slot is free and its text is gone
ClosedBuffer == [alive |-> FALSE, path |-> <<>>, is_file |-> TRUE, content |-> <<>>]

\* BufferCollection::add_new: a cleared buffer in the lowest free slot
buffers_add_new(coll) ==
    LET fresh == [alive |-> TRUE, path |-> <<>>, is_file |-> TRUE, content |-> <<>>]
    IN  IF DeadSlots(coll) # {}
        THEN LET i == CHOOSE d \in DeadSlots(coll) : \A e \in DeadSlots(coll) : d <= e
             IN  [buffers |-> [coll EXCEPT ![i] = fresh], handle |-> i - 1]
        ELSE [buffers |-> Append(coll, fresh), handle |-> Len(coll)]

\* Piped bytes: "a" is a character of one byte, "L" "T" the two bytes of one
\* character.
PipedInputs == {<<"a">>, <<"L">>, <<"T">>, <<"L", "T">>, <<"a", "L">>, <<"T", "a">>}

\* the characters of whole bytes
RECURSIVE decode_utf8(_)
decode_utf8(input) ==
    IF input = <<>> THEN <<>>
    ELSE IF Head(input) = "L" THEN <<"LT">> \o decode_utf8(Tail(Tail(input)))
    ELSE <<Head(input)>> \o decode_utf8(Tail(input))

\* ResidualStrBytes::receive_bytes: the character the held bytes and the
\* first bytes of the input make, the characters of the rest, and the bytes
\* of a last character that is not whole yet, which are held
receive_bytes(residual, input) ==
    LET joins == residual # <<>>
        rest == IF joins THEN Tail(input) ELSE input
        holds == rest # <<>> /\ rest[Len(rest)] = "L"
        whole == IF holds THEN SubSeq(rest, 1, Len(rest) - 1) ELSE rest
    IN  [texts |-> <<IF joins THEN decode_utf8(residual \o <<Head(input)>>) ELSE <<>>, decode_utf8(whole)>>,
         residual |-> IF holds THEN <<"L">> ELSE <<>>]

\* Client::new
NewClient == [active |-> FALSE, buffer_view_handle |-> NoHandle, stdin_buffer_handle |-> NoHandle, stdin_residual_bytes |-> <<>>]

\* "pipe." followed by the index of the client
PipePath(index) == <<"pipe.", index>>

\* the last operation; `closed` are the clients that had a pipe buffer closed
NoClientOp == [op |-> "none", client |-> NoHandle, buffer |-> NoHandle, view |-> NoHandle, texts |-> <<>>, had |-> NoHandle, steps |-> 0, closed |-> {}]

ClientParked == client_manager = [c \in ClientIndexes |-> NewClient] /\ editor_buffers = <<>> /\ editor_buffer_views = <<>> /\ client_op = NoClientOp

ClientStart == ClientParked

\* ClientManager::on_client_joined
OnClientJoined(c) ==
    /\ client_op.steps < MaxClientSteps
    /\ ~client_manager[c].active
    /\ client_manager' = [client_manager EXCEPT ![c].active = TRUE]
    /\ client_op' = [NoClientOp EXCEPT !.steps = client_op.steps + 1, !.closed = client_op.closed, !.op = "joined", !.client = c]
    /\ UNCHANGED <<editor_buffers, editor_buffer_views>>
    /\ UNCHANGED <<serverVars, commandVars, viewVars, historyVars, queueVars, textVars, lspVars, undoVars, insertVars, rpcVars, editVars, wsVars, uriVars, scrollVars, columnVars, langVars, aliasVars, keymapVars>>

\* ClientManager::on_client_left with Client::dispose, and the views of the
\* client removed
OnClientLeft(c) ==
    /\ client_op.steps < MaxClientSteps
    /\ client_manager[c].active
    /\ client_manager' = [client_manager EXCEPT ![c] = NewClient]
    /\ editor_buffer_views' = remove_buffer_views_with_client(editor_buffer_views, c)
    /\ client_op' = [NoClientOp EXCEPT !.steps = client_op.steps + 1, !.closed = client_op.closed, !.op = "left", !.client = c]
    /\ UNCHANGED editor_buffers
    /\ UNCHANGED <<serverVars, commandVars, viewVars, historyVars, queueVars, textVars, lspVars, undoVars, insertVars, rpcVars, editVars, wsVars, uriVars, scrollVars, columnVars, langVars, aliasVars, keymapVars>>

\* Client::on_stdin_input
OnStdinInput(c, input) ==
    /\ client_op.steps < MaxClientSteps
    /\ client_manager[c].active
    /\ (client_manager[c].stdin_residual_bytes # <<>>) = (Head(input) = "T")
    /\ \E texts \in {receive_bytes(client_manager[c].stdin_residual_bytes, input)} :
       \E made \in {IF client_manager[c].stdin_buffer_handle # NoHandle
                    THEN [buffers |-> editor_buffers, buffer_views |-> editor_buffer_views,
                          handle |-> client_manager[c].stdin_buffer_handle,
                          view |-> client_manager[c].buffer_view_handle]
                    ELSE LET buffer == buffers_add_new(editor_buffers)
                             view == add_new(editor_buffer_views, c, buffer.handle)
                         IN  [buffers |-> [buffer.buffers EXCEPT ![buffer.handle + 1] =
                                            [@ EXCEPT !.path = PipePath(c), !.is_file = FALSE]],
                              buffer_views |-> view.buffer_views,
                              handle |-> buffer.handle,
                              view |-> view.handle]} :
        /\ Cardinality({i \in 1..Len(made.buffers) : made.buffers[i].alive}) <= MaxBuffers
        /\ Len(made.buffers[made.handle + 1].content) + Len(texts.texts[1]) + Len(texts.texts[2]) <= MaxContent
        /\ editor_buffers' = [made.buffers EXCEPT ![made.handle + 1].content = (@ \o texts.texts[1]) \o texts.texts[2]]
        /\ editor_buffer_views' = made.buffer_views
        /\ client_manager' = [client_manager EXCEPT ![c].stdin_residual_bytes = texts.residual,
                                                    ![c].buffer_view_handle = made.view,
                                                    ![c].stdin_buffer_handle = made.handle]
        /\ client_op' = [op |-> "stdin", client |-> c, buffer |-> made.handle, view |-> made.view,
                         texts |-> texts.texts, had |-> client_manager[c].stdin_buffer_handle,
                         steps |-> client_op.steps + 1, closed |-> client_op.closed]
    /\ UNCHANGED <<serverVars, commandVars, viewVars, historyVars, queueVars, textVars, lspVars, undoVars, insertVars, rpcVars, editVars, wsVars, uriVars, scrollVars, columnVars, langVars, aliasVars, keymapVars>>

\* a client opens a buffer that exists: the view it has on it, or a new one
OpenBuffer(c, b) ==
    /\ client_op.steps < MaxClientSteps
    /\ client_manager[c].active
    /\ b + 1 \in 1..Len(editor_buffers)
    /\ editor_buffers[b + 1].alive
    /\ \E r \in {buffer_view_handle_from_buffer_handle(editor_buffer_views, c, b)} :
        /\ editor_buffer_views' = r.buffer_views
        /\ client_manager' = [client_manager EXCEPT ![c].buffer_view_handle = r.handle]
        /\ client_op' = [NoClientOp EXCEPT !.steps = client_op.steps + 1, !.closed = client_op.closed, !.op = "open", !.client = c, !.buffer = b, !.view = r.handle]
    /\ UNCHANGED editor_buffers
    /\ UNCHANGED <<serverVars, commandVars, viewVars, historyVars, queueVars, textVars, lspVars, undoVars, insertVars, rpcVars, editVars, wsVars, uriVars, scrollVars, columnVars, langVars, aliasVars, keymapVars>>

\* Client::on_buffer_close that keeps the handle of the stdin buffer
on_buffer_close_keep_stdin(client, coll, buffer_handle, restored) ==
    [client EXCEPT
        !.buffer_view_handle =
            IF @ # NoHandle /\ coll[@ + 1].buffer_handle = buffer_handle THEN restored ELSE @]

\* Client::on_buffer_close of one client: a client that showed the buffer
\* shows nothing, or what the history brings back
on_buffer_close(client, coll, buffer_handle, restored) ==
    [client EXCEPT
        !.buffer_view_handle =
            IF @ # NoHandle /\ coll[@ + 1].buffer_handle = buffer_handle THEN restored ELSE @,
        !.stdin_buffer_handle = IF @ = buffer_handle THEN NoHandle ELSE @]

\* a buffer is closed: every client hears of it and the views on the buffer
\* are removed
BufferClose(b) ==
    /\ client_op.steps < MaxClientSteps
    /\ b + 1 \in 1..Len(editor_buffers)
    /\ editor_buffers[b + 1].alive
    /\ editor_buffers' = [editor_buffers EXCEPT ![b + 1] = ClosedBuffer]
    /\ editor_buffer_views' = remove_buffer_views_with_buffer(editor_buffer_views, b)
    /\ \E restored \in [ClientIndexes -> {NoHandle} \cup {i - 1 : i \in 1..Len(editor_buffer_views)}] :
        /\ \A c \in ClientIndexes :
            restored[c] # NoHandle =>
                /\ client_manager[c].active
                /\ client_manager[c].buffer_view_handle # NoHandle
                /\ editor_buffer_views[client_manager[c].buffer_view_handle + 1].buffer_handle = b
                /\ editor_buffer_views[restored[c] + 1].alive
                /\ editor_buffer_views[restored[c] + 1].client_handle = c
                /\ editor_buffer_views[restored[c] + 1].buffer_handle # b
        /\ client_manager' = [c \in ClientIndexes |->
                                IF client_manager[c].active
                                THEN on_buffer_close(client_manager[c], editor_buffer_views, b, restored[c])
                                ELSE client_manager[c]]
    /\ client_op' = [NoClientOp EXCEPT !.steps = client_op.steps + 1, !.closed = client_op.closed \cup {c \in ClientIndexes : client_manager[c].stdin_buffer_handle = b}, !.op = "close", !.buffer = b]
    /\ UNCHANGED <<serverVars, commandVars, viewVars, historyVars, queueVars, textVars, lspVars, undoVars, insertVars, rpcVars, editVars, wsVars, uriVars, scrollVars, columnVars, langVars, aliasVars, keymapVars>>

\* The scroll of a client (client.rs 120..166, 228..257, 351..365). The
\* main cursor is at a byte of a line of the buffer the client shows; lines
\* are tuples of characters, "a" one column wide and "\t" a tab.

\* usize::saturating_sub
saturating_sub(a, b) == IF a < b THEN 0 ELSE a - b

\* find_line_height: the visual lines a text takes in a viewport
RECURSIVE find_line_height_from(_, _, _, _, _)
find_line_height_from(line, viewport_width, tab_size, x, height) ==
    IF line = <<>> THEN height
    ELSE LET moved == x + (IF Head(line) = "\t" THEN tab_size ELSE 1)
         IN  IF moved >= viewport_width
             THEN find_line_height_from(Tail(line), viewport_width, tab_size, moved - viewport_width, height + 1)
             ELSE find_line_height_from(Tail(line), viewport_width, tab_size, moved, height)

find_line_height(line, viewport_width, tab_size) == find_line_height_from(line, viewport_width, tab_size, 0, 1)

\* DisplayLen::total_len of a line
total_len(line, tab_size) ==
    Len(SelectSeq(line, LAMBDA c : c # "\t")) + tab_size * Len(SelectSeq(line, LAMBDA c : c = "\t"))

\* Client::find_main_cursor_height
RECURSIVE lines_height(_, _, _)
lines_height(content, viewport_width, tab_size) ==
    IF content = <<>> THEN 0
    ELSE 1 + (total_len(Head(content), tab_size) \div viewport_width)
            + lines_height(Tail(content), viewport_width, tab_size)

find_main_cursor_height(client) ==
    lines_height(SubSeq(client.content, 1, client.position.line_index), client.viewport_size[1], client.tab_size)
        + find_line_height(SubSeq(client.content[client.position.line_index + 1], 1, client.position.column_byte_index),
                           client.viewport_size[1], client.tab_size)

\* Client::has_ui
has_ui(client) == client.viewport_size[1] # 0 /\ client.viewport_size[2] # 0

\* Client::update_view with a window enlarged by half the height
update_view_half(client, margin_bottom) ==
    IF ~has_ui(client) THEN client.scroll
    ELSE LET height == saturating_sub(saturating_sub(client.viewport_size[2], 1), margin_bottom)
             half_height == height \div 2
             main_cursor_height == find_main_cursor_height(client)
         IN  IF main_cursor_height < saturating_sub(client.scroll, half_height)
                 THEN saturating_sub(main_cursor_height, half_height)
             ELSE IF main_cursor_height < client.scroll
                 THEN main_cursor_height
             ELSE IF main_cursor_height >= client.scroll + height + half_height
                 THEN main_cursor_height + 1 - half_height
             ELSE IF main_cursor_height >= client.scroll + height
                 THEN main_cursor_height + 1 - height
             ELSE client.scroll

\* Client::update_view: the scroll it leaves
update_view(client, margin_bottom) ==
    IF ~has_ui(client) THEN client.scroll
    ELSE LET height == saturating_sub(saturating_sub(client.viewport_size[2], 1), margin_bottom)
             half_height == height \div 2
             quarter_height == half_height \div 2
             main_cursor_height == find_main_cursor_height(client)
         IN  IF main_cursor_height < saturating_sub(client.scroll, quarter_height)
                 THEN saturating_sub(main_cursor_height, half_height)
             ELSE IF main_cursor_height < client.scroll
                 THEN main_cursor_height
             ELSE IF main_cursor_height >= client.scroll + height + quarter_height
                 THEN main_cursor_height + 1 - half_height
             ELSE IF main_cursor_height >= client.scroll + height
                 THEN main_cursor_height + 1 - height
             ELSE client.scroll

ViewAnchors == {"Top", "Center", "Bottom"}

\* Client::set_view_anchor: the scroll it leaves
set_view_anchor(client, anchor) ==
    IF ~has_ui(client) THEN client.scroll
    ELSE LET height == saturating_sub(client.viewport_size[2], 1)
             height_offset == CASE anchor = "Top" -> 0
                                [] anchor = "Center" -> height \div 2
                                [] anchor = "Bottom" -> height
         IN  find_main_cursor_height(client) + height_offset

\* the buffers, viewports and scrolls of the model
MaxScrollLines == 4

MaxScroll == 7

ScrollLines == {<<>>, <<"a", "\t", "a">>}

ScrollContents == UNION {[1..n -> ScrollLines] : n \in 1..MaxScrollLines}

ViewportWidths == {0, 2, 5}

ViewportRows == {0, 2, 5, 6}

NoScrollOp == [op |-> "none", anchor |-> "Top", margin_bottom |-> 0, before |-> 0]

ScrollParked == scroll_client = [viewport_size |-> <<0, 0>>, scroll |-> 0, content |-> <<<<>>>>, position |-> [line_index |-> 0, column_byte_index |-> 0], tab_size |-> 2] /\ scroll_op = NoScrollOp

ScrollStart == scroll_op = NoScrollOp /\ scroll_client \in UNION {UNION {{[viewport_size |-> <<w, r>>, scroll |-> s, content |-> c, position |-> [line_index |-> l - 1, column_byte_index |-> b], tab_size |-> 2] : w \in ViewportWidths, r \in ViewportRows, s \in 0..MaxScroll, b \in {0, Len(c[l])}} : l \in 1..Len(c)} : c \in ScrollContents}

\* Client::update_view
UpdateView(margin_bottom) ==
    /\ scroll_client' = [scroll_client EXCEPT !.scroll = update_view(scroll_client, margin_bottom)]
    /\ scroll_op' = [op |-> "update_view", anchor |-> "Top", margin_bottom |-> margin_bottom, before |-> scroll_client.scroll]
    /\ UNCHANGED <<serverVars, commandVars, viewVars, historyVars, queueVars, textVars, lspVars, undoVars, insertVars, rpcVars, editVars, wsVars, uriVars, clientVars, columnVars, langVars, aliasVars, keymapVars>>

\* Client::set_view_anchor
SetViewAnchor(anchor) ==
    /\ scroll_client' = [scroll_client EXCEPT !.scroll = set_view_anchor(scroll_client, anchor)]
    /\ scroll_op' = [op |-> "set_view_anchor", anchor |-> anchor, margin_bottom |-> 0, before |-> scroll_client.scroll]
    /\ UNCHANGED <<serverVars, commandVars, viewVars, historyVars, queueVars, textVars, lspVars, undoVars, insertVars, rpcVars, editVars, wsVars, uriVars, clientVars, columnVars, langVars, aliasVars, keymapVars>>

\* Column movements over characters of more than one byte (buffer_view.rs
\* 60..174). A line is a tuple of characters; "E" stands for a character of two bytes, every
\* other character takes one; a column is a count of bytes.

\* char::len_utf8
len_utf8(c) == IF c = "E" THEN 2 ELSE 1

\* str::len: the bytes of a text
RECURSIVE str_len(_)
str_len(text) == IF text = <<>> THEN 0 ELSE len_utf8(Head(text)) + str_len(Tail(text))

\* str::char_indices: the byte each character starts at
char_indices(text) == [k \in 1..Len(text) |-> str_len(SubSeq(text, 1, k - 1))]

\* the characters of a line from a byte on, and up to a byte
chars_from(line, column) == SelectSeq([k \in 1..Len(line) |-> [c |-> line[k], i |-> char_indices(line)[k]]], LAMBDA e : e.i >= column)

chars_until(line, column) == SelectSeq([k \in 1..Len(line) |-> [c |-> line[k], i |-> char_indices(line)[k]]], LAMBDA e : e.i < column)

\* Iterator::rev
rev(s) == [k \in 1..Len(s) |-> s[Len(s) + 1 - k]]

\* try_nth: the n-th element of an iterator, or what is left of n
try_nth(iter, n) ==
    IF n < Len(iter) THEN [ok |-> TRUE, e |-> iter[n + 1], n |-> 0]
    ELSE [ok |-> FALSE, e |-> 0, n |-> n - Len(iter)]

\* the loop of ColumnsForward past the end of a line
RECURSIVE columns_forward_loop(_, _, _)
columns_forward_loop(content, line_index, n) ==
    LET last_line_index == Len(content) - 1 IN
    IF line_index = last_line_index
    THEN [line_index |-> line_index, column_byte_index |-> str_len(content[last_line_index + 1])]
    ELSE LET line == content[line_index + 2]
             r == try_nth(char_indices(line), n)
         IN  IF r.ok THEN [line_index |-> line_index + 1, column_byte_index |-> r.e]
             ELSE IF r.n = 0 THEN [line_index |-> line_index + 1, column_byte_index |-> str_len(line)]
             ELSE columns_forward_loop(content, line_index + 1, r.n - 1)

\* CursorMovement::ColumnsForward that counts bytes
columns_forward_bytes(content, p, n) ==
    LET line == content[p.line_index + 1]
        r == try_nth([k \in 1..(str_len(line) - p.column_byte_index) |-> k - 1], n)
    IN  IF r.ok THEN [line_index |-> p.line_index, column_byte_index |-> p.column_byte_index + r.e]
        ELSE IF r.n = 0 THEN [line_index |-> p.line_index, column_byte_index |-> str_len(line)]
        ELSE columns_forward_loop(content, p.line_index, r.n - 1)

\* CursorMovement::ColumnsForward for one cursor
columns_forward(content, p, n) ==
    LET line == content[p.line_index + 1]
        rest == chars_from(line, p.column_byte_index)
        r == try_nth([k \in 1..Len(rest) |-> rest[k].i - p.column_byte_index], n)
    IN  IF r.ok THEN [line_index |-> p.line_index, column_byte_index |-> p.column_byte_index + r.e]
        ELSE IF r.n = 0 THEN [line_index |-> p.line_index, column_byte_index |-> str_len(line)]
        ELSE columns_forward_loop(content, p.line_index, r.n - 1)

\* where ColumnsBackward goes from the start of a line
line_before(content, line_index) ==
    IF line_index = 0 THEN [line_index |-> 0, column_byte_index |-> 0]
    ELSE [line_index |-> line_index - 1, column_byte_index |-> str_len(content[line_index])]

\* the loop of ColumnsBackward past the start of a line
RECURSIVE columns_backward_loop(_, _, _)
columns_backward_loop(content, line_index, n) ==
    IF line_index = 0 THEN [line_index |-> 0, column_byte_index |-> 0]
    ELSE LET line == content[line_index]
             r == try_nth(rev(char_indices(line)), n)
         IN  IF r.ok THEN [line_index |-> line_index - 1, column_byte_index |-> r.e]
             ELSE IF r.n = 0 THEN line_before(content, line_index - 1)
             ELSE columns_backward_loop(content, line_index - 1, r.n - 1)

\* CursorMovement::ColumnsBackward for one cursor
columns_backward(content, p, n) ==
    IF n = 0 THEN p
    ELSE LET line == content[p.line_index + 1]
             until == chars_until(line, p.column_byte_index)
             r == try_nth(rev([k \in 1..Len(until) |-> until[k].i]), n - 1)
         IN  IF r.ok THEN [line_index |-> p.line_index, column_byte_index |-> r.e]
             ELSE IF r.n = 0 THEN line_before(content, p.line_index)
             ELSE columns_backward_loop(content, p.line_index, r.n - 1)

\* the steps of a movement, the buffers of the model
MaxColumns == 7

ColumnContents ==
    {<<<<"a", "b">>, <<"c", " ", "e">>, <<"e", "f", "g", "h">>, <<"i", " ", "k">>, <<"l", "m">>>>,
     <<<<"E", "a">>, <<>>, <<"a", "E">>>>,
     <<<<"E", "E">>>>,
     <<<<>>, <<"E">>>>}

\* the places of a buffer a cursor may be at, in the order of the text
ColumnPlaces(content) ==
    LET of_line(l) == [k \in 1..(Len(content[l]) + 1) |->
                         [line_index |-> l - 1, column_byte_index |-> str_len(SubSeq(content[l], 1, k - 1))]]
        RECURSIVE upto(_)
        upto(l) == IF l = 0 THEN <<>> ELSE upto(l - 1) \o of_line(l)
    IN  upto(Len(content))

NoColumnMove == [movement |-> "none", n |-> 0, from |-> [line_index |-> 0, column_byte_index |-> 0]]

ColumnParked == column_cursor = [content |-> <<<<>>>>, position |-> [line_index |-> 0, column_byte_index |-> 0]] /\ column_move = NoColumnMove

ColumnStart == column_move = NoColumnMove /\ column_cursor \in UNION {{[content |-> c, position |-> ColumnPlaces(c)[k]] : k \in 1..Len(ColumnPlaces(c))} : c \in ColumnContents}

\* BufferView::move_cursors with ColumnsForward(n), one cursor
ColumnsForward(n) ==
    /\ column_cursor' = [column_cursor EXCEPT !.position = columns_forward(column_cursor.content, @, n)]
    /\ column_move' = [movement |-> "ColumnsForward", n |-> n, from |-> column_cursor.position]
    /\ UNCHANGED <<serverVars, commandVars, viewVars, historyVars, queueVars, textVars, lspVars, undoVars, insertVars, rpcVars, editVars, wsVars, uriVars, clientVars, scrollVars, langVars, aliasVars, keymapVars>>

\* BufferView::move_cursors with ColumnsBackward(n), one cursor
ColumnsBackward(n) ==
    /\ column_cursor' = [column_cursor EXCEPT !.position = columns_backward(column_cursor.content, @, n)]
    /\ column_move' = [movement |-> "ColumnsBackward", n |-> n, from |-> column_cursor.position]
    /\ UNCHANGED <<serverVars, commandVars, viewVars, historyVars, queueVars, textVars, lspVars, undoVars, insertVars, rpcVars, editVars, wsVars, uriVars, clientVars, scrollVars, langVars, aliasVars, keymapVars>>

\* The language of a file (plugin-lsp protocol.rs 90..159). A path and a
\* language id are tuples of characters.

\* the arms of the match of path_to_language_id, in its order
LanguageTable ==
    <<
        [extension |-> <<"a", "b", "a", "p">>, id |-> <<"a", "b", "a", "p">>],
        [extension |-> <<"b", "a", "t">>, id |-> <<"b", "a", "t">>],
        [extension |-> <<"c", "m", "d">>, id |-> <<"b", "a", "t">>],
        [extension |-> <<"b", "i", "b">>, id |-> <<"b", "i", "b", "t", "e", "x">>],
        [extension |-> <<"c", "l", "j">>, id |-> <<"c", "l", "o", "s", "u", "r", "e">>],
        [extension |-> <<"c", "l", "j", "s">>, id |-> <<"c", "l", "o", "s", "u", "r", "e">>],
        [extension |-> <<"c", "l", "j", "c">>, id |-> <<"c", "l", "o", "s", "u", "r", "e">>],
        [extension |-> <<"e", "d", "n">>, id |-> <<"c", "l", "o", "s", "u", "r", "e">>],
        [extension |-> <<"c", "o", "f", "f", "e", "e">>, id |-> <<"c", "o", "f", "f", "e", "e", "s", "c", "r", "i", "p", "t">>],
        [extension |-> <<"l", "i", "t", "c", "o", "f", "f", "e", "e">>, id |-> <<"c", "o", "f", "f", "e", "e", "s", "c", "r", "i", "p", "t">>],
        [extension |-> <<"c">>, id |-> <<"c">>],
        [extension |-> <<"h">>, id |-> <<"c">>],
        [extension |-> <<"c", "c">>, id |-> <<"c", "p", "p">>],
        [extension |-> <<"c", "p", "p">>, id |-> <<"c", "p", "p">>],
        [extension |-> <<"c", "x", "x">>, id |-> <<"c", "p", "p">>],
        [extension |-> <<"c", "+", "+">>, id |-> <<"c", "p", "p">>],
        [extension |-> <<"h", "h">>, id |-> <<"c", "p", "p">>],
        [extension |-> <<"h", "p", "p">>, id |-> <<"c", "p", "p">>],
        [extension |-> <<"h", "x", "x">>, id |-> <<"c", "p", "p">>],
        [extension |-> <<"h", "+", "+">>, id |-> <<"c", "p", "p">>],
        [extension |-> <<"c", "s">>, id |-> <<"c", "s", "h", "a", "r", "p">>],
        [extension |-> <<"c", "s", "x">>, id |-> <<"c", "s", "h", "a", "r", "p">>],
        [extension |-> <<"c", "s", "s">>, id |-> <<"c", "s", "s">>],
        [extension |-> <<"d", "i", "f", "f">>, id |-> <<"d", "i", "f", "f">>],
        [extension |-> <<"d", "a", "r", "t">>, id |-> <<"d", "a", "r", "t">>],
        [extension |-> <<"d", "o", "c", "k", "e", "r", "f", "i", "l", "e">>, id |-> <<"d", "o", "c", "k", "e", "r", "f", "i", "l", "e">>],
        [extension |-> <<"e", "x">>, id |-> <<"e", "l", "i", "x", "i", "r">>],
        [extension |-> <<"e", "x", "s">>, id |-> <<"e", "l", "i", "x", "i", "r">>],
        [extension |-> <<"e", "r", "l">>, id |-> <<"e", "r", "l", "a", "n", "g">>],
        [extension |-> <<"h", "r", "l">>, id |-> <<"e", "r", "l", "a", "n", "g">>],
        [extension |-> <<"f", "s">>, id |-> <<"f", "s", "h", "a", "r", "p">>],
        [extension |-> <<"f", "s", "i">>, id |-> <<"f", "s", "h", "a", "r", "p">>],
        [extension |-> <<"f", "s", "x">>, id |-> <<"f", "s", "h", "a", "r", "p">>],
        [extension |-> <<"f", "s", "s", "c", "r", "i", "p", "t">>, id |-> <<"f", "s", "h", "a", "r", "p">>],
        [extension |-> <<"g", "o">>, id |-> <<"g", "o">>],
        [extension |-> <<"g", "r", "o", "o", "v", "y">>, id |-> <<"g", "r", "o", "o", "v", "y">>],
        [extension |-> <<"g", "v", "y">>, id |-> <<"g", "r", "o", "o", "v", "y">>],
        [extension |-> <<"g", "y">>, id |-> <<"g", "r", "o", "o", "v", "y">>],
        [extension |-> <<"g", "s", "h">>, id |-> <<"g", "r", "o", "o", "v", "y">>],
        [extension |-> <<"h", "t", "m", "l">>, id |-> <<"h", "t", "m", "l">>],
        [extension |-> <<"h", "t", "m">>, id |-> <<"h", "t", "m", "l">>],
        [extension |-> <<"i", "n", "i">>, id |-> <<"i", "n", "i">>],
        [extension |-> <<"j", "a", "v", "a">>, id |-> <<"j", "a", "v", "a">>],
        [extension |-> <<"j", "s">>, id |-> <<"j", "a", "v", "a", "s", "c", "r", "i", "p", "t">>],
        [extension |-> <<"m", "j", "s">>, id |-> <<"j", "a", "v", "a", "s", "c", "r", "i", "p", "t">>],
        [extension |-> <<"j", "s", "o", "n">>, id |-> <<"j", "s", "o", "n">>],
        [extension |-> <<"l", "e", "s", "s">>, id |-> <<"l", "e", "s", "s">>],
        [extension |-> <<"l", "u", "a">>, id |-> <<"l", "u", "a">>],
        [extension |-> <<"m", "d">>, id |-> <<"m", "a", "r", "k", "d", "o", "w", "n">>],
        [extension |-> <<"m">>, id |-> <<"o", "b", "j", "e", "c", "t", "i", "v", "e", "-", "c">>],
        [extension |-> <<"m", "m">>, id |-> <<"o", "b", "j", "e", "c", "t", "i", "v", "e", "-", "c", "p", "p">>],
        [extension |-> <<"p", "l", "x">>, id |-> <<"p", "e", "r", "l">>],
        [extension |-> <<"p", "l">>, id |-> <<"p", "e", "r", "l">>],
        [extension |-> <<"p", "m">>, id |-> <<"p", "e", "r", "l">>],
        [extension |-> <<"x", "s">>, id |-> <<"p", "e", "r", "l">>],
        [extension |-> <<"t">>, id |-> <<"p", "e", "r", "l">>],
        [extension |-> <<"p", "o", "d">>, id |-> <<"p", "e", "r", "l">>],
        [extension |-> <<"p", "h", "p">>, id |-> <<"p", "h", "p">>],
        [extension |-> <<"p", "h", "t", "m", "l">>, id |-> <<"p", "h", "p">>],
        [extension |-> <<"p", "h", "p", "3">>, id |-> <<"p", "h", "p">>],
        [extension |-> <<"p", "h", "p", "4">>, id |-> <<"p", "h", "p">>],
        [extension |-> <<"p", "h", "p", "5">>, id |-> <<"p", "h", "p">>],
        [extension |-> <<"p", "h", "p", "7">>, id |-> <<"p", "h", "p">>],
        [extension |-> <<"p", "h", "p", "s">>, id |-> <<"p", "h", "p">>],
        [extension |-> <<"p", "h", "p", "-", "s">>, id |-> <<"p", "h", "p">>],
        [extension |-> <<"p", "h", "t">>, id |-> <<"p", "h", "p">>],
        [extension |-> <<"p", "h", "a", "r">>, id |-> <<"p", "h", "p">>],
        [extension |-> <<"p", "s", "1">>, id |-> <<"p", "o", "w", "e", "r", "s", "h", "e", "l", "l">>],
        [extension |-> <<"p", "s", "1", "x", "m", "l">>, id |-> <<"p", "o", "w", "e", "r", "s", "h", "e", "l", "l">>],
        [extension |-> <<"p", "s", "c", "1">>, id |-> <<"p", "o", "w", "e", "r", "s", "h", "e", "l", "l">>],
        [extension |-> <<"p", "s", "d", "1">>, id |-> <<"p", "o", "w", "e", "r", "s", "h", "e", "l", "l">>],
        [extension |-> <<"p", "s", "m", "1">>, id |-> <<"p", "o", "w", "e", "r", "s", "h", "e", "l", "l">>],
        [extension |-> <<"p", "s", "s", "c">>, id |-> <<"p", "o", "w", "e", "r", "s", "h", "e", "l", "l">>],
        [extension |-> <<"p", "s", "r", "c">>, id |-> <<"p", "o", "w", "e", "r", "s", "h", "e", "l", "l">>],
        [extension |-> <<"c", "d", "x", "m", "l">>, id |-> <<"p", "o", "w", "e", "r", "s", "h", "e", "l", "l">>],
        [extension |-> <<"p", "y">>, id |-> <<"p", "y", "t", "h", "o", "n">>],
        [extension |-> <<"p", "y", "i">>, id |-> <<"p", "y", "t", "h", "o", "n">>],
        [extension |-> <<"p", "y", "c">>, id |-> <<"p", "y", "t", "h", "o", "n">>],
        [extension |-> <<"p", "y", "d">>, id |-> <<"p", "y", "t", "h", "o", "n">>],
        [extension |-> <<"p", "y", "o">>, id |-> <<"p", "y", "t", "h", "o", "n">>],
        [extension |-> <<"p", "y", "w">>, id |-> <<"p", "y", "t", "h", "o", "n">>],
        [extension |-> <<"p", "y", "z">>, id |-> <<"p", "y", "t", "h", "o", "n">>],
        [extension |-> <<"r">>, id |-> <<"r">>],
        [extension |-> <<"r", "d", "a", "t", "a">>, id |-> <<"r">>],
        [extension |-> <<"r", "d", "s">>, id |-> <<"r">>],
        [extension |-> <<"r", "d", "a">>, id |-> <<"r">>],
        [extension |-> <<"r", "a", "z", "o", "r">>, id |-> <<"r", "a", "z", "o", "r">>],
        [extension |-> <<"c", "s", "h", "t", "m", "l">>, id |-> <<"r", "a", "z", "o", "r">>],
        [extension |-> <<"v", "b", "h", "t", "m", "l">>, id |-> <<"r", "a", "z", "o", "r">>],
        [extension |-> <<"r", "b">>, id |-> <<"r", "u", "b", "y">>],
        [extension |-> <<"r", "s">>, id |-> <<"r", "u", "s", "t">>],
        [extension |-> <<"s", "c", "s", "s">>, id |-> <<"s", "c", "s", "s">>],
        [extension |-> <<"s", "a", "s", "s">>, id |-> <<"s", "a", "s", "s">>],
        [extension |-> <<"s", "c", "a", "l", "a">>, id |-> <<"s", "c", "a", "l", "a">>],
        [extension |-> <<"s", "c">>, id |-> <<"s", "c", "a", "l", "a">>],
        [extension |-> <<"s", "h">>, id |-> <<"s", "h", "e", "l", "l", "s", "c", "r", "i", "p", "t">>],
        [extension |-> <<"s", "q", "l">>, id |-> <<"s", "q", "l">>],
        [extension |-> <<"s", "w", "i", "f", "t">>, id |-> <<"s", "w", "i", "f", "t">>],
        [extension |-> <<"t", "s">>, id |-> <<"t", "y", "p", "e", "s", "c", "r", "i", "p", "t">>],
        [extension |-> <<"t", "s", "x">>, id |-> <<"t", "y", "p", "e", "s", "c", "r", "i", "p", "t">>],
        [extension |-> <<"t", "e", "x">>, id |-> <<"t", "e", "x">>],
        [extension |-> <<"v", "b">>, id |-> <<"v", "b">>],
        [extension |-> <<"x", "m", "l">>, id |-> <<"x", "m", "l">>],
        [extension |-> <<"y", "a", "m", "l">>, id |-> <<"y", "a", "m", "l">>],
        [extension |-> <<"y", "m", "l">>, id |-> <<"y", "a", "m", "l">>]
    >>

\* u8::to_ascii_lowercase
UpperCase == <<"A", "B", "C", "D", "E", "F", "G", "H", "I", "J", "K", "L", "M", "N", "O", "P", "Q", "R", "S", "T", "U", "V", "W", "X", "Y", "Z">>

LowerCase == <<"a", "b", "c", "d", "e", "f", "g", "h", "i", "j", "k", "l", "m", "n", "o", "p", "q", "r", "s", "t", "u", "v", "w", "x", "y", "z">>

to_ascii_lowercase(c) ==
    IF \E k \in 1..Len(UpperCase) : UpperCase[k] = c
    THEN LowerCase[CHOOSE k \in 1..Len(UpperCase) : UpperCase[k] = c]
    ELSE c

to_ascii_uppercase(c) ==
    IF \E k \in 1..Len(LowerCase) : LowerCase[k] = c
    THEN UpperCase[CHOOSE k \in 1..Len(LowerCase) : LowerCase[k] = c]
    ELSE c

\* Path::extension: what follows the last `.` of the file name, if there is
\* a `.` after the first character
NoExtension == <<"no extension">>

path_extension(path) ==
    LET dots == {k \in 2..Len(path) : path[k] = "."}
    IN  IF dots = {} THEN NoExtension
        ELSE SubSeq(path, (CHOOSE k \in dots : \A j \in dots : j <= k) + 1, Len(path))

\* the length of `buf`
LANGUAGE_ID_BUF_LEN == 8

\* path_to_language_id with a buffer that takes every extension
path_to_language_id_any_len(path) ==
    LET extension == path_extension(path)
        extension_lowercase == [k \in 1..Len(extension) |-> to_ascii_lowercase(extension[k])]
        arms == {k \in 1..Len(LanguageTable) : LanguageTable[k].extension = extension_lowercase}
    IN  IF extension = NoExtension THEN <<>>
        ELSE IF arms # {} THEN LanguageTable[CHOOSE k \in arms : \A j \in arms : k <= j].id
        ELSE extension

\* path_to_language_id
path_to_language_id(path) ==
    LET extension == path_extension(path)
        extension_lowercase == [k \in 1..Len(extension) |-> to_ascii_lowercase(extension[k])]
        arms == {k \in 1..Len(LanguageTable) : LanguageTable[k].extension = extension_lowercase}
    IN  IF extension = NoExtension THEN <<>>
        ELSE IF Len(extension) > LANGUAGE_ID_BUF_LEN THEN extension
        ELSE IF arms # {} THEN LanguageTable[CHOOSE k \in arms : \A j \in arms : k <= j].id
        ELSE extension

\* the extensions of the table as written, in capitals and with a capital
\* first, some that are not in it, and paths without one
TableExtensions == {LanguageTable[k].extension : k \in 1..Len(LanguageTable)}

LanguageExtensions ==
    TableExtensions
        \cup {[k \in 1..Len(e) |-> to_ascii_uppercase(e[k])] : e \in TableExtensions}
        \cup {[k \in 1..Len(e) |-> IF k = 1 THEN to_ascii_uppercase(e[k]) ELSE e[k]] : e \in TableExtensions}
        \cup {<<"t", "x", "t">>, <<"T", "x", "t">>, <<"p", "e", "p", "p", "e", "r", "r", "c", "s">>, <<>>}

LanguagePaths ==
    {<<"f", ".">> \o e : e \in LanguageExtensions}
        \cup {<<"a", ".", "b", ".">> \o e : e \in {<<"r", "s">>, <<"R", "S">>, <<"t", "x", "t">>}}
        \cup {<<"f">>, <<".", "r", "s">>, <<"r", "s">>, <<>>}

NoLanguage == <<"not asked">>

LanguageParked == language = [path |-> <<>>, id |-> NoLanguage]

LanguageStart == language \in {[path |-> p, id |-> NoLanguage] : p \in LanguagePaths}

\* the language id of a document is asked for
PathToLanguageId ==
    /\ language.id = NoLanguage
    /\ language' = [language EXCEPT !.id = path_to_language_id(language.path)]
    /\ UNCHANGED <<serverVars, commandVars, viewVars, historyVars, queueVars, textVars, lspVars, undoVars, insertVars, rpcVars, editVars, wsVars, uriVars, clientVars, scrollVars, columnVars, aliasVars, keymapVars>>

\* ---------------------------------------------------------------------
\* The aliases of commands (command.rs 324..386): every alias is a range of
\* one text arena, its name followed by its target.

\* Alias::from
alias_from(alias, texts) ==
    SubSeq(texts, alias.start + 1, alias.start + alias.from_len)

\* Alias::to
alias_to(alias, texts) ==
    SubSeq(texts, alias.start + alias.from_len + 1,
           alias.start + alias.from_len + alias.to_len)

\* the longest name and target an alias holds (command.rs 350)
U16_MAX == 65535

\* the index of the first alias named from, or 0
alias_position(collection, from) ==
    LET hits == {i \in 1..Len(collection.aliases) :
                    alias_from(collection.aliases[i], collection.texts) = from}
    IN IF hits = {} THEN 0 ELSE CHOOSE i \in hits : \A j \in hits : i <= j

\* (variant: the aliases behind a removed one keep their start)
alias_add_unshifted(collection, from, to) ==
    LET i == alias_position(collection, from)
        texts == collection.texts
        aliases == collection.aliases
        alias_len == aliases[i].from_len + aliases[i].to_len
        removed ==
            IF i = 0 THEN collection
            ELSE [texts |-> SubSeq(texts, 1, aliases[i].start)
                                \o SubSeq(texts, aliases[i].start + alias_len + 1, Len(texts)),
                  aliases |-> [k \in 1..(Len(aliases) - 1) |->
                                    IF k < i THEN aliases[k] ELSE aliases[k + 1]]]
    IN  IF Len(from) > U16_MAX \/ Len(to) > U16_MAX THEN collection
        ELSE [texts |-> removed.texts \o from \o to,
              aliases |-> Append(removed.aliases,
                    [start |-> Len(removed.texts), from_len |-> Len(from),
                     to_len |-> Len(to)])]

\* AliasCollection::add (command.rs 348..376)
alias_add(collection, from, to) ==
    LET i == alias_position(collection, from)
        texts == collection.texts
        aliases == collection.aliases
        alias_len == aliases[i].from_len + aliases[i].to_len
        removed ==
            IF i = 0 THEN collection
            ELSE [texts |-> SubSeq(texts, 1, aliases[i].start)
                                \o SubSeq(texts, aliases[i].start + alias_len + 1, Len(texts)),
                  aliases |-> [k \in 1..(Len(aliases) - 1) |->
                                    IF k < i THEN aliases[k]
                                    ELSE [aliases[k + 1] EXCEPT !.start = @ - alias_len]]]
    IN  IF Len(from) > U16_MAX \/ Len(to) > U16_MAX THEN collection
        ELSE [texts |-> removed.texts \o from \o to,
              aliases |-> Append(removed.aliases,
                    [start |-> Len(removed.texts), from_len |-> Len(from),
                     to_len |-> Len(to)])]

\* AliasCollection::find (command.rs 378..386): the target, if there is one
alias_find(collection, from) ==
    LET i == alias_position(collection, from) IN
    IF i = 0 THEN [some |-> FALSE, to |-> <<>>]
    ELSE [some |-> TRUE, to |-> alias_to(collection.aliases[i], collection.texts)]

\* how many aliases are added
MaxAliasAdds == 4

\* the names and the targets that are added: some are the start or the end
\* of others, one is empty
AliasNames == {<<>>, <<"a">>, <<"a", "b">>, <<"b">>}
AliasTargets == {<<>>, <<"b">>, <<"a", "b", "a">>}

\* AliasCollection::default, nothing added
AliasParked ==
    /\ alias_collection = [texts |-> <<>>, aliases |-> <<>>]
    /\ alias_op = [count |-> 0, from |-> <<>>, replaced |-> 0,
                   targets |-> [n \in AliasNames |-> [some |-> FALSE, to |-> <<>>]]]

AliasStart == AliasParked

\* ---- AliasCollection::add (command.rs 348..376)
AliasAdd ==
    /\ alias_op.count < MaxAliasAdds
    /\ \E from \in AliasNames, to \in AliasTargets :
        /\ alias_collection' = alias_add(alias_collection, from, to)
        /\ alias_op' = [count |-> alias_op.count + 1, from |-> from,
                        replaced |-> alias_position(alias_collection, from),
                        targets |-> [alias_op.targets EXCEPT
                                        ![from] = [some |-> TRUE, to |-> to]]]
    /\ UNCHANGED <<serverVars, commandVars, viewVars, historyVars, queueVars, textVars, lspVars, undoVars, insertVars, rpcVars, editVars, wsVars, uriVars, clientVars, scrollVars, columnVars, langVars, keymapVars>>

\* ---------------------------------------------------------------------
\* The key maps of a mode (src/src/keymap.rs): what the keys pressed so far
\* stand for.

\* MatchResult
MatchNone == [kind |-> "None", to |-> <<>>]
MatchPrefix == [kind |-> "Prefix", to |-> <<>>]
ReplaceWith(to) == [kind |-> "ReplaceWith", to |-> to]

\* Iterator::zip(..).all(|(a, b)| a == b): the two agree as far as both go
zip_all_eq(from, keys) ==
    \A k \in 1..Min(Len(from), Len(keys)) : from[k] = keys[k]

\* KeyMapCollection::matches (keymap.rs 56..77); a mode without maps has the
\* empty list
matches(maps, mode, keys) ==
    LET ms == maps[mode]
        agreeing == {i \in 1..Len(ms) : zip_all_eq(ms[i].from, keys)}
        equal == {i \in agreeing : Len(ms[i].from) = Len(keys)}
    IN  IF equal # {} THEN ReplaceWith(ms[CHOOSE i \in equal : \A j \in equal : i <= j].to)
        ELSE IF agreeing # {} THEN MatchPrefix
        ELSE MatchNone

\* how many maps are parsed, how many keys a map is made from, how many keys
\* are pressed
MaxKeyMaps == 2
MaxFrom == 2
MaxPressed == 3

KeyModes == {"Normal", "Insert"}
PressedKeys == SeqsOf({"a", "b"}, 0, MaxPressed)
FromKeys == SeqsOf({"a", "b"}, 1, MaxFrom)
ToKeys == {<<"x">>, <<"y", "z">>}

\* no call of matches yet
NoMatch == [mode |-> "Normal", keys |-> <<>>, result |-> MatchNone, calls |-> 0]

\* KeyMapCollection::default
KeyMapParked ==
    /\ keymaps = [m \in KeyModes |-> <<>>]
    /\ key_match = NoMatch

KeyMapStart == KeyMapParked

\* ---- KeyMapCollection::parse_map (keymap.rs 29..54) with texts that parse
\* to the keys from and to
ParseMap ==
    /\ Len(keymaps["Normal"]) + Len(keymaps["Insert"]) < MaxKeyMaps
    /\ \E mode \in KeyModes, from \in FromKeys, to \in ToKeys :
        keymaps' = [keymaps EXCEPT ![mode] = Append(@, [from |-> from, to |-> to])]
    /\ key_match' = NoMatch
    /\ UNCHANGED <<serverVars, commandVars, viewVars, historyVars, queueVars, textVars, lspVars, undoVars, insertVars, rpcVars, editVars, wsVars, uriVars, clientVars, scrollVars, columnVars, langVars, aliasVars>>

\* ---- KeyMapCollection::matches (keymap.rs 56..77)
Matches ==
    /\ \E mode \in KeyModes, keys \in PressedKeys :
        key_match' = [mode |-> mode, keys |-> keys,
                      result |-> matches(keymaps, mode, keys), calls |-> 1]
    /\ UNCHANGED keymaps
    /\ UNCHANGED <<serverVars, commandVars, viewVars, historyVars, queueVars, textVars, lspVars, undoVars, insertVars, rpcVars, editVars, wsVars, uriVars, clientVars, scrollVars, columnVars, langVars, aliasVars>>

\* the event loop has not started
ServerParked == ServerStart /\ budget.bufs = MaxBufs

CommandInit == ServerParked /\ CommandStart /\ ViewParked /\ HistoryParked /\ QueueParked /\ TextParked /\ LspParked /\ UndoParked /\ InsertParked /\ RpcParked /\ TextEditParked /\ WorkspaceParked /\ UriParked /\ ClientParked /\ ScrollParked /\ ColumnParked /\ LanguageParked /\ AliasParked /\ KeyMapParked

NextCommand == EvalCommand

SpecCommand == CommandInit /\ [][NextCommand]_vars

ViewInit == ServerParked /\ CommandParked /\ ViewStart /\ HistoryParked /\ QueueParked /\ TextParked /\ LspParked /\ UndoParked /\ InsertParked /\ RpcParked /\ TextEditParked /\ WorkspaceParked /\ UriParked /\ ClientParked /\ ScrollParked /\ ColumnParked /\ LanguageParked /\ AliasParked /\ KeyMapParked

NextView ==
    \/ InsertTextAtCursorPositions
    \/ DeleteTextInCursorRanges
    \/ OnBufferTextInserts
    \/ OnBufferRangeDeletes

SpecView == ViewInit /\ [][NextView]_vars

\* the buffer in one view whose cursors are moved, edited and read over
CursorInit == ServerParked /\ CommandParked /\ CursorStart /\ HistoryParked /\ QueueParked /\ TextParked /\ LspParked /\ UndoParked /\ InsertParked /\ RpcParked /\ TextEditParked /\ WorkspaceParked /\ UriParked /\ ClientParked /\ ScrollParked /\ ColumnParked /\ LanguageParked /\ AliasParked /\ KeyMapParked

NextCursor ==
    \/ MoveCursors
    \/ OnBufferRead
    \/ InsertTextAtCursorPositions
    \/ DeleteTextInCursorRanges
    \/ OnBufferTextInserts
    \/ OnBufferRangeDeletes

SpecCursor == CursorInit /\ [][NextCursor]_vars

NextServer ==
    \/ Wait
    \/ EvError
    \/ EvListener
    \/ EvClientRead
    \/ EvClientWrite
    \/ EvProcess
    \/ Update
    \/ ReqQuit
    \/ ReqRedraw
    \/ ReqWriteToClient
    \/ ReqCloseClient
    \/ ReqSpawnProcess
    \/ ReqWriteToProcess
    \/ ReqCloseProcessInput
    \/ ReqKillProcess

\* the loop starts beside an editor that has just been constructed
ServerInit == ServerStart /\ CommandParked /\ ViewParked /\ HistoryParked /\ QueueParked /\ TextParked /\ LspParked /\ UndoParked /\ InsertParked /\ RpcParked /\ TextEditParked /\ WorkspaceParked /\ UriParked /\ ClientParked /\ ScrollParked /\ ColumnParked /\ LanguageParked /\ AliasParked /\ KeyMapParked

SpecServer == ServerInit /\ [][NextServer]_vars

KeyMapInit == ServerParked /\ CommandParked /\ ViewParked /\ HistoryParked /\ QueueParked /\ TextParked /\ LspParked /\ UndoParked /\ InsertParked /\ RpcParked /\ TextEditParked /\ WorkspaceParked /\ UriParked /\ ClientParked /\ ScrollParked /\ ColumnParked /\ LanguageParked /\ AliasParked /\ KeyMapStart

NextKeyMap ==
    \/ ParseMap
    \/ Matches

SpecKeyMap == KeyMapInit /\ [][NextKeyMap]_vars

AliasInit == ServerParked /\ CommandParked /\ ViewParked /\ HistoryParked /\ QueueParked /\ TextParked /\ LspParked /\ UndoParked /\ InsertParked /\ RpcParked /\ TextEditParked /\ WorkspaceParked /\ UriParked /\ ClientParked /\ ScrollParked /\ ColumnParked /\ LanguageParked /\ AliasStart /\ KeyMapParked

NextAlias == AliasAdd

SpecAlias == AliasInit /\ [][NextAlias]_vars

LanguageInit == ServerParked /\ CommandParked /\ ViewParked /\ HistoryParked /\ QueueParked /\ TextParked /\ LspParked /\ UndoParked /\ InsertParked /\ RpcParked /\ TextEditParked /\ WorkspaceParked /\ UriParked /\ ClientParked /\ ScrollParked /\ ColumnParked /\ LanguageStart /\ AliasParked /\ KeyMapParked

NextLanguage == PathToLanguageId

SpecLanguage == LanguageInit /\ [][NextLanguage]_vars

ColumnInit == ServerParked /\ CommandParked /\ ViewParked /\ HistoryParked /\ QueueParked /\ TextParked /\ LspParked /\ UndoParked /\ InsertParked /\ RpcParked /\ TextEditParked /\ WorkspaceParked /\ UriParked /\ ClientParked /\ ScrollParked /\ ColumnStart /\ LanguageParked /\ AliasParked /\ KeyMapParked

NextColumn ==
    \/ \E n \in 0..MaxColumns : ColumnsForward(n)
    \/ \E n \in 0..MaxColumns : ColumnsBackward(n)

SpecColumn == ColumnInit /\ [][NextColumn]_vars

ScrollInit == ServerParked /\ CommandParked /\ ViewParked /\ HistoryParked /\ QueueParked /\ TextParked /\ LspParked /\ UndoParked /\ InsertParked /\ RpcParked /\ TextEditParked /\ WorkspaceParked /\ UriParked /\ ClientParked /\ ScrollStart /\ ColumnParked /\ LanguageParked /\ AliasParked /\ KeyMapParked

NextScroll ==
    \/ \E margin_bottom \in {0, 1} : UpdateView(margin_bottom)
    \/ \E anchor \in ViewAnchors : SetViewAnchor(anchor)

SpecScroll == ScrollInit /\ [][NextScroll]_vars

ClientInit == ServerParked /\ CommandParked /\ ViewParked /\ HistoryParked /\ QueueParked /\ TextParked /\ LspParked /\ UndoParked /\ InsertParked /\ RpcParked /\ TextEditParked /\ WorkspaceParked /\ UriParked /\ ClientStart /\ ScrollParked /\ ColumnParked /\ LanguageParked /\ AliasParked /\ KeyMapParked

NextClient ==
    \/ \E c \in ClientIndexes : OnClientJoined(c)
    \/ \E c \in ClientIndexes : OnClientLeft(c)
    \/ \E c \in ClientIndexes, input \in PipedInputs : OnStdinInput(c, input)
    \/ \E c \in ClientIndexes, b \in 0..(MaxBuffers - 1) : OpenBuffer(c, b)
    \/ \E b \in 0..(MaxBuffers - 1) : BufferClose(b)

SpecClient == ClientInit /\ [][NextClient]_vars

UriInit == ServerParked /\ CommandParked /\ ViewParked /\ HistoryParked /\ QueueParked /\ TextParked /\ LspParked /\ UndoParked /\ InsertParked /\ RpcParked /\ TextEditParked /\ WorkspaceParked /\ UriStart /\ ClientParked /\ ScrollParked /\ ColumnParked /\ LanguageParked /\ AliasParked /\ KeyMapParked

NextUri == UriDisplay \/ UriReceive \/ UriParse

SpecUri == UriInit /\ [][NextUri]_vars

WorkspaceInit == ServerParked /\ CommandParked /\ ViewParked /\ HistoryParked /\ QueueParked /\ TextParked /\ LspParked /\ UndoParked /\ InsertParked /\ RpcParked /\ TextEditParked /\ WorkspaceStart /\ UriParked /\ ClientParked /\ ScrollParked /\ ColumnParked /\ LanguageParked /\ AliasParked /\ KeyMapParked

NextWorkspace == WorkspaceEditApply

SpecWorkspace == WorkspaceInit /\ [][NextWorkspace]_vars

TextEditInit == ServerParked /\ CommandParked /\ ViewParked /\ HistoryParked /\ QueueParked /\ TextParked /\ LspParked /\ UndoParked /\ InsertParked /\ RpcParked /\ TextEditStart /\ WorkspaceParked /\ UriParked /\ ClientParked /\ ScrollParked /\ ColumnParked /\ LanguageParked /\ AliasParked /\ KeyMapParked

NextTextEdit == ApplyEdits

SpecTextEdit == TextEditInit /\ [][NextTextEdit]_vars

RpcInit == ServerParked /\ CommandParked /\ ViewParked /\ HistoryParked /\ QueueParked /\ TextParked /\ LspParked /\ UndoParked /\ InsertParked /\ RpcParked /\ TextEditParked /\ WorkspaceParked /\ UriParked /\ ClientParked /\ ScrollParked /\ ColumnParked /\ LanguageParked /\ AliasParked /\ KeyMapParked

NextRpc ==
    \/ ProtocolRequest
    \/ ProtocolNotify
    \/ PendingAdd
    \/ PendingTake

SpecRpc == RpcInit /\ [][NextRpc]_vars

InsertInit == ServerParked /\ CommandParked /\ ViewParked /\ HistoryParked /\ QueueParked /\ TextParked /\ LspParked /\ UndoParked /\ InsertStart /\ RpcParked /\ TextEditParked /\ WorkspaceParked /\ UriParked /\ ClientParked /\ ScrollParked /\ ColumnParked /\ LanguageParked /\ AliasParked /\ KeyMapParked

NextInsert == OnKeys

SpecInsert == InsertInit /\ [][NextInsert]_vars

UndoInit == ServerParked /\ CommandParked /\ ViewParked /\ HistoryParked /\ QueueParked /\ TextParked /\ LspParked /\ UndoStart /\ InsertParked /\ RpcParked /\ TextEditParked /\ WorkspaceParked /\ UriParked /\ ClientParked /\ ScrollParked /\ ColumnParked /\ LanguageParked /\ AliasParked /\ KeyMapParked

NextUndo ==
    \/ BufferInsertText
    \/ BufferDeleteRange
    \/ CommitEdits
    \/ Undo
    \/ Redo

SpecUndo == UndoInit /\ [][NextUndo]_vars

LspInit == ServerParked /\ CommandParked /\ ViewParked /\ HistoryParked /\ QueueParked /\ TextParked /\ LspStart /\ UndoParked /\ InsertParked /\ RpcParked /\ TextEditParked /\ WorkspaceParked /\ UriParked /\ ClientParked /\ ScrollParked /\ ColumnParked /\ LanguageParked /\ AliasParked /\ KeyMapParked

NextLsp ==
    \/ ParseEvents
    \/ ServerEventIterNext

SpecLsp == LspInit /\ [][NextLsp]_vars

TextInit == ServerParked /\ CommandParked /\ ViewParked /\ HistoryParked /\ QueueParked /\ TextStart /\ LspParked /\ UndoParked /\ InsertParked /\ RpcParked /\ TextEditParked /\ WorkspaceParked /\ UriParked /\ ClientParked /\ ScrollParked /\ ColumnParked /\ LanguageParked /\ AliasParked /\ KeyMapParked

NextText ==
    \/ ExpandVariables
    \/ NextToken

SpecText == TextInit /\ [][NextText]_vars

QueueInit == ServerParked /\ CommandParked /\ ViewParked /\ HistoryParked /\ QueueParked /\ TextParked /\ LspParked /\ UndoParked /\ InsertParked /\ RpcParked /\ TextEditParked /\ WorkspaceParked /\ UriParked /\ ClientParked /\ ScrollParked /\ ColumnParked /\ LanguageParked /\ AliasParked /\ KeyMapParked

NextQueue ==
    \/ Enqueue
    \/ EnqueueBufferInsert
    \/ flip

SpecQueue == QueueInit /\ [][NextQueue]_vars

HistoryInit == ServerParked /\ CommandParked /\ ViewParked /\ HistoryStart /\ QueueParked /\ TextParked /\ LspParked /\ UndoParked /\ InsertParked /\ RpcParked /\ TextEditParked /\ WorkspaceParked /\ UriParked /\ ClientParked /\ ScrollParked /\ ColumnParked /\ LanguageParked /\ AliasParked /\ KeyMapParked

NextHistory == AddToHistory

SpecHistory == HistoryInit /\ [][NextHistory]_vars

\* ======================================================================
\* Claims about the event loop
\* ======================================================================

ClientErrorOps == {"client_read_error", "client_write_error", "request_write_error"}

\* C1: a read or write error on one client connection closes only that
\* connection: its slot is freed, one ConnectionClose with its handle is
\* emitted, the loop keeps running, and the listener and every other open
\* connection stay registered with their slots and queues untouched.
C1_ErrorClosesOnlyThatClient ==
    [][\A i \in ClientSlots :
        (last'.op \in ClientErrorOps /\ last'.index = i) =>
            /\ client_connections[i] # NoConnection
            /\ client_connections'[i] = NoConnection
            /\ events' = Append(events, PlatformEvent("ConnectionClose", i, 0))
            /\ pc' # "done"
            /\ Kevent(ListenerFd, "Read", 0) \in kqueue'
            /\ kqueue' = kqueue \ ClientKevents(client_connections[i], i)
            /\ \A j \in ClientSlots \ {i} :
                /\ client_connections'[j] = client_connections[j]
                /\ client_write_queue'[j] = client_write_queue[j]
                /\ client_connections[j] # NoConnection =>
                        ClientKevents(client_connections[j], j) \subseteq kqueue'
      ]_vars

\* an error has just closed one client while another one is open
C1_Witness ==
    /\ last.op \in ClientErrorOps
    /\ pc # "done"
    /\ \E j \in ClientSlots \ {last.index} : client_connections[j] # NoConnection

\* C2: for each open client connection the bytes its socket accepted are a
\* prefix of the concatenation of the buffers requested for it, in request
\* order.
C2_SentIsPrefixOfRequested ==
    \A i \in ClientSlots :
        LET c == client_connections[i] IN
        c # NoConnection => IsPrefix(sent[c], requested[c])

\* the buffers waiting in the request queue
RequestedIds == Range(DroppedIds(requests))

\* the buffers queued on a slot that holds a connection
QueuedOnOpenIds ==
    UNION {Range(BufIds(client_write_queue[i])) :
                i \in {j \in ClientSlots : client_connections[j] # NoConnection}}

\* C3: every buffer handed over in a WriteToClient request is released exactly
\* once, when it is written, when its connection closes or when the loop
\* quits; a slot without a connection holds no queued buffers.
C3_BuffersReleasedExactlyOnce ==
    /\ \A b \in 1..next_buf :
        /\ released[b] <= 1
        /\ (released[b] = 0) <=> (b \in RequestedIds \cup QueuedOnOpenIds)
    /\ \A i \in ClientSlots :
        client_connections[i] = NoConnection => client_write_queue[i] = <<>>
    /\ pc = "done" => \A b \in 1..next_buf : released[b] = 1

\* the event sequences a SpawnProcess request may produce
TagEventsWellFormed(h) ==
    \/ h = <<>>
    \/ h = <<"ProcessExit">>
    \/ /\ h[1] = "ProcessSpawned"
       /\ \A k \in 2..Len(h) :
            \/ h[k] = "ProcessOutput"
            \/ k = Len(h) /\ h[k] = "ProcessExit"

Exited(h) == h # <<>> /\ h[Len(h)] = "ProcessExit"

\* C4: the events of one SpawnProcess request are a single ProcessExit (spawn
\* failed or no free slot), or ProcessSpawned, ProcessOutput*, and at most one
\* ProcessExit, emitted on a read error/EOF, a failed stdin write or
\* KillProcess; after the ProcessExit the process holds no slot.
C4_ProcessEventSequence ==
    [][\A t \in 1..MaxSpawns :
        /\ TagEventsWellFormed(emitted'[t])
        /\ Exited(emitted'[t]) => \A p \in ProcessSlots : processes'[p].tag # t
        /\ (emitted[t] = <<>> /\ emitted'[t] # <<>>) =>
                /\ last'.tag = t
                /\ \/ emitted'[t] = <<"ProcessSpawned">> /\ last'.op = "spawn"
                   \/ emitted'[t] = <<"ProcessExit">> /\ last'.op = "spawn_failed"
                   \/ /\ emitted'[t] = <<"ProcessExit">> /\ last'.op = "spawn_no_slot"
                      /\ \A p \in ProcessSlots : processes[p] # NONE_PROCESS
        /\ (emitted[t] # <<>> /\ ~Exited(emitted[t]) /\ Exited(emitted'[t])) =>
                /\ last'.tag = t
                /\ last'.op \in {"process_read_error", "process_write_error", "kill_process"}
        /\ (last'.op = "spawn" /\ last'.tag = t) => emitted'[t] = <<"ProcessSpawned">>
        /\ (last'.op \in {"spawn_failed", "spawn_no_slot"} /\ last'.tag = t) =>
                emitted'[t] = <<"ProcessExit">>
        /\ (last'.op \in {"process_read_error", "process_write_error", "kill_process"}
                /\ last'.tag = t) => emitted'[t] = Append(emitted[t], "ProcessExit")
      ]_vars

\* a spawned process has produced output and then exited, and another request
\* was answered by a lone ProcessExit
C4_Witness ==
    \E t, u \in 1..MaxSpawns :
        /\ emitted[t] = <<"ProcessSpawned", "ProcessOutput", "ProcessExit">>
        /\ emitted[u] = <<"ProcessExit">>

\* C5: after events of a tick with readiness were delivered, and with nothing
\* further happening, the loop waits with timeout 0, then with the idle
\* duration, then delivers one Idle event and blocks without timeout.
C5_IdleLadder ==
    /\ (pc = "wait" /\ tick = "delivered") => timeout = "Zero"
    /\ (pc = "wait" /\ tick = "zero_waited") => timeout = "Idle"
    /\ tick = "idle_waited" =>
            /\ timeout = "None"
            /\ pc = "update" =>
                Cardinality({k \in 1..Len(events) : events[k].kind = "Idle"}) = 1

\* ======================================================================
\* Claims about the command dispatcher
\* ======================================================================

\* C6: whatever CommandError the evaluation of a command line ends with, the
\* status bar shows that error as an error message and eval_and_write_error
\* returns Continue; Quit and QuitAll are returned only by a command that
\* succeeded.
C6_ErrorsAreReported ==
    /\ evaluated.result \notin {"None", "Ok"} =>
            /\ status_bar = Message("Error", ErrorText(evaluated.result), <<>>)
            /\ flow = "Continue"
    /\ flow \in {"Quit", "QuitAll"} => evaluated.result = "Ok"

\* a command function has failed on the way, after it was found
C6_Witness ==
    /\ evaluated.invoked # 0
    /\ evaluated.result \in {"BufferWriteError", "TooFewArguments", "NoBufferOpened"}

\* the commands that discard buffers: quit, quit-all, reload, reload-all,
\* close, close-all
DiscardingCommands == {2, 3, 6, 7, 8, 9}

\* would COMMANDS[i], run for this client, discard a buffer that needs saving
DiscardsUnsaved(i, client_handle) ==
    LET ctx == [buffers |-> buffers, buffer_views |-> buffer_views, clients |-> clients]
        cur == current_buffer_handle([client_handle |-> client_handle], ctx)
    IN
    CASE i = 2 -> /\ Cardinality({c \in ClientHandles : clients[c].active}) = 1
                  /\ AnyNeedsSave(buffers)
      [] i \in {3, 7, 9} -> AnyNeedsSave(buffers)
      [] i \in {6, 8} -> cur.error = "Ok" /\ buffers[cur.handle].needs_save

\* C7: a discarding command that is given without `!` while a buffer it would
\* discard needs saving fails with UnsavedChanges and changes no buffer, view
\* or client; with `!`, or when no such buffer needs saving, the check lets
\* it through.
C7_DiscardNeedsBang ==
    [][\A i \in DiscardingCommands :
        (/\ evaluated'.count = evaluated.count + 1
         /\ evaluated'.invoked = i
         /\ CheckArgs(evaluated'.args, COMMANDS[i].params) = "Ok") =>
            IF ~evaluated'.bang /\ DiscardsUnsaved(i, evaluated'.client_handle)
            THEN /\ evaluated'.result = "UnsavedChanges"
                 /\ UNCHANGED <<buffers, buffer_views, clients>>
                 /\ flow' = "Continue"
            ELSE evaluated'.result # "UnsavedChanges"
      ]_vars

\* a discarding command given without `!` was refused because a buffer needs
\* saving
C7_Witness ==
    /\ evaluated.invoked \in DiscardingCommands
    /\ ~evaluated.bang
    /\ evaluated.result = "UnsavedChanges"
    /\ AnyNeedsSave(buffers)

\* C8: a command whose bang_usage is None is never run with `!`: the line is
\* rejected with an error before the command function is called.
C8_BangNeedsBangUsage ==
    (evaluated.invoked # 0 /\ evaluated.bang) => COMMANDS[evaluated.invoked].bang_usage

\* ======================================================================
\* Claims about multi-cursor edits
\* ======================================================================

\* the text of a buffer as one string, its lines joined by line breaks
RECURSIVE FlatText(_)
FlatText(content) ==
    IF Len(content) = 1 THEN content[1]
    ELSE content[1] \o <<"\n">> \o FlatText(Tail(content))

\* the number of characters of the flat text that precede a position
RECURSIVE FlatOffset(_, _)
FlatOffset(content, p) ==
    IF p.line_index = 0 THEN p.column_byte_index
    ELSE Len(content[1]) + 1
            + FlatOffset(Tail(content), Pos(p.line_index - 1, p.column_byte_index))

\* the flat text with `text` put in at each of the first k offsets
RECURSIVE Spliced(_, _, _, _)
Spliced(flat, offsets, k, text) ==
    IF k = 0 THEN flat
    ELSE Spliced(SubSeq(flat, 1, offsets[k]) \o text
                    \o SubSeq(flat, offsets[k] + 1, Len(flat)),
                 offsets, k - 1, text)

\* C9: insert_text_at_cursor_positions leaves the buffer equal to the
\* original with the text inserted at each original cursor position, and
\* once the inserts are reconciled every cursor of the view sits right after
\* its own copy of the text.
C9_InsertAtEveryCursor ==
    edited.kind = "insert" =>
        LET cs == edited.views[1].cursors
            offsets == [i \in 1..Len(cs) |-> FlatOffset(edited.content, cs[i].position)]
            now == views[1].cursors
        IN
        /\ FlatText(buffer_content) =
                Spliced(FlatText(edited.content), offsets, Len(cs), edited.text)
        /\ pending.kind = "none" =>
            /\ Len(now) = Len(cs)
            /\ \A i \in 1..Len(cs) :
                /\ now[i].position \in Positions(buffer_content)
                /\ FlatOffset(buffer_content, now[i].position)
                        = offsets[i] + i * Len(edited.text)

\* `X` was inserted at (0,0) and (1,0) of the buffer `a\nb`
C9_Witness ==
    /\ edited.kind = "insert"
    /\ pending.kind = "none"
    /\ edited.content = <<<<"a">>, <<"b">>>>
    /\ buffer_content = <<<<"X", "a">>, <<"X", "b">>>>
    /\ Len(views[1].cursors) = 2
    /\ views[1].cursors[1].position = Pos(0, 1)
    /\ views[1].cursors[2].position = Pos(1, 1)

\* where an offset of the original text ends up once the ranges are gone:
\* it moves back by what was deleted before it
RECURSIVE Collapsed(_, _, _, _)
Collapsed(offset, froms, tos, k) ==
    IF k = 0 THEN offset
    ELSE Collapsed(offset, froms, tos, k - 1)
            - (Min(offset, tos[k]) - Min(offset, froms[k]))

\* the flat text without the characters inside the ranges
Removed(flat, froms, tos) ==
    LET keep == {k \in 1..Len(flat) :
                    \A i \in 1..Len(froms) : ~(froms[i] < k /\ k <= tos[i])}
        nth(j) == CHOOSE k \in keep : Cardinality({m \in keep : m < k}) = j - 1
    IN [j \in 1..Cardinality(keep) |-> flat[nth(j)]]

\* C10: once the deletes of delete_text_in_cursor_ranges are reconciled, the
\* buffer is the original without the ranges; in every view on the buffer a
\* cursor end inside a deleted range has fallen to the start of that range, one
\* after a range has moved back by its length, one before is where it was;
\* so each cursor of the editing view is collapsed at the start of its own
\* range.  Views on other buffers keep their cursors.
C10_DeleteCollapsesCursors ==
    (edited.kind = "delete" /\ pending.kind = "none") =>
        LET cs == edited.views[1].cursors
            froms == [i \in 1..Len(cs) |-> FlatOffset(edited.content, to_range(cs[i]).from)]
            tos == [i \in 1..Len(cs) |-> FlatOffset(edited.content, to_range(cs[i]).to)]
            moved(p) == Collapsed(FlatOffset(edited.content, p), froms, tos, Len(cs))
        IN
        /\ FlatText(buffer_content) = Removed(FlatText(edited.content), froms, tos)
        /\ \A v \in 1..Len(views) :
            IF edited.views[v].buffer_handle # edited.views[1].buffer_handle
            THEN views[v] = edited.views[v]
            ELSE /\ Len(views[v].cursors) = Len(edited.views[v].cursors)
                 /\ \A i \in 1..Len(views[v].cursors) :
                    LET was == edited.views[v].cursors[i]
                        now == views[v].cursors[i]
                    IN
                    /\ now.anchor \in Positions(buffer_content)
                    /\ now.position \in Positions(buffer_content)
                    /\ FlatOffset(buffer_content, now.anchor) = moved(was.anchor)
                    /\ FlatOffset(buffer_content, now.position) = moved(was.position)
        /\ \A i \in 1..Len(cs) :
            /\ views[1].cursors[i].anchor = views[1].cursors[i].position
            /\ FlatOffset(buffer_content, views[1].cursors[i].position)
                    = Collapsed(froms[i], froms, tos, i - 1)

\* two ranges of one line were deleted while another view had a cursor
\* behind them
C10_Witness ==
    /\ edited.kind = "delete"
    /\ pending.kind = "none"
    /\ Len(edited.views[1].cursors) = 2
    /\ \A i \in 1..2 : edited.views[1].cursors[i].anchor # edited.views[1].cursors[i].position
    /\ edited.views[2].buffer_handle = 0
    /\ views[2] # edited.views[2]

\* C11: whenever no edit waits for the views, in every view on the buffer both
\* ends of every cursor are inside the buffer (the line exists, the column is
\* at most the line's length), each cursor ends before the next one begins,
\* and the main cursor index names one of the cursors.  This holds after
\* move_cursors with any movement, count and kind, after the views met the
\* inserts or deletes of an edit, and after on_buffer_read.
C11_CursorsStayInsideSortedDisjoint ==
    pending.kind = "none" =>
        \A v \in 1..Len(views) :
            views[v].buffer_handle = 0 =>
                LET cs == views[v].cursors IN
                /\ Len(cs) > 0
                /\ \A i \in 1..Len(cs) :
                    /\ cs[i].anchor \in Positions(buffer_content)
                    /\ cs[i].position \in Positions(buffer_content)
                /\ \A i \in 1..(Len(cs) - 1) :
                    ~PosLeq(to_range(cs[i + 1]).from, to_range(cs[i]).to)
                /\ views[v].main_cursor_index \in 0..(Len(cs) - 1)

\* two cursors were moved onto each other and came out of the guard as one
C11_Witness ==
    /\ edited.kind = "move"
    /\ edited.merged
    /\ Len(views[1].cursors) = 1
    /\ views[1].main_cursor_index = 0

\* C16: when the first token of a command line, without its trailing `!`s, is
\* the alias of a command, the line is evaluated as if the command's name stood
\* in its place: with the alias as it is, that command is invoked without bang;
\* with one `!` after the alias, that command is invoked with bang; and the
\* arguments are the tokens after the first one either way.
C16_AliasRunsItsTarget ==
    \A i \in 1..Len(COMMANDS) :
        (/\ evaluated.count > 0
         /\ evaluated.command # <<>>
         /\ COMMANDS[i].alias # <<>>
         /\ evaluated.command[1] \in {COMMANDS[i].alias, COMMANDS[i].alias \o <<"!">>}) =>
            /\ evaluated.invoked = i
            /\ evaluated.bang = (evaluated.command[1] # COMMANDS[i].alias)
            /\ evaluated.args = Tail(evaluated.command)

\* `q!` was evaluated: quit ran with bang
C16_Witness ==
    /\ evaluated.command = <<<<"q", "!">>>>
    /\ COMMANDS[evaluated.invoked].name = <<"q", "u", "i", "t">>
    /\ evaluated.bang

\* C15: the history never holds more than HISTORY_CAPACITY lines; a line that
\* is empty, begins with a blank or equals the newest line is not added; any
\* other line is added after the newest, and when the history is full the
\* oldest line leaves to make room for it.
C15_HistoryRing ==
    /\ [](Len(history) <= HISTORY_CAPACITY)
    /\ [][offered' # offered \/ history' # history =>
            history' =
                IF \/ offered' = <<>>
                   \/ offered'[1] = " "
                   \/ (history # <<>> /\ history[Len(history)] = offered')
                THEN history
                ELSE IF Len(history) = HISTORY_CAPACITY
                     THEN Append(Tail(history), offered')
                     ELSE Append(history, offered')
         ]_vars

\* C14: at every moment iter(), which walks the events of the read half,
\* returns exactly the events that were enqueued
\* between the last flip and the one before it, in the order they were
\* enqueued: events enqueued after the last flip are not among them, and those
\* of earlier rounds are gone; and as_str of each BufferInsertText among them
\* is the text that was given to enqueue_buffer_insert.
C14_ReadHalfIsLastRound ==
    /\ Len(editor_events.read.events) = Len(readable)
    /\ \A i \in 1..Len(readable) :
        LET event == editor_events.read.events[i] IN
        /\ event.kind = readable[i].kind
        /\ event.kind = "BufferInsertText" =>
                as_str(event.text, editor_events) = readable[i].text

\* a round with two inserts is being read while the next round, with other
\* events, is being enqueued
C14_Witness ==
    /\ Len(readable) = 2
    /\ readable[1].kind = "BufferInsertText"
    /\ readable[2].kind = "BufferInsertText"
    /\ readable[1].text # readable[2].text
    /\ enqueued # <<>>
    /\ enqueued # readable

\* the references the claims call valid, each with the value it stands for
ValidReferences(ctx) ==
    {[ref |-> <<"@", "r", "e", "g", "i", "s", "t", "e", "r", "(">> \o <<k>> \o <<")">>, value |-> ctx.registers[k]] :
        k \in DOMAIN ctx.registers}
    \cup {[ref |-> <<"@", "b", "u", "f", "f", "e", "r", "-", "p", "a", "t", "h", "(">> \o <<<<"0", "1">>[b]>> \o <<")">>,
           value |-> ctx.paths[b]] : b \in 1..Len(ctx.paths)}
    \cup {[ref |-> <<"@", "r", "e", "a", "d", "l", "i", "n", "e", "-", "i", "n", "p", "u", "t", "(", ")">>, value |-> ctx.read_line]}
    \cup (IF ctx.current_buffer = NoHandle THEN {}
          ELSE {[ref |-> <<"@", "b", "u", "f", "f", "e", "r", "-", "p", "a", "t", "h", "(", ")">>,
                 value |-> ctx.paths[ctx.current_buffer + 1]],
                [ref |-> <<"@", "b", "u", "f", "f", "e", "r", "-", "i", "n", "d", "e", "x", "(", ")">>,
                 value |-> <<<<"0", "1">>[ctx.current_buffer + 1]>>]})

\* a text with each valid reference replaced by its value, from left to right
RECURSIVE Replaced(_, _)
Replaced(ctx, s) ==
    LET hits == {r \in ValidReferences(ctx) : IsPrefix(r.ref, s)} IN
    IF s = <<>> THEN <<>>
    ELSE IF hits = {} THEN <<s[1]>> \o Replaced(ctx, Tail(s))
    ELSE LET r == CHOOSE r \in hits : TRUE IN
         r.value \o Replaced(ctx, SubSeq(s, Len(r.ref) + 1, Len(s)))

\* a line with the valid references of its expandable tokens replaced and
\* everything else as it was
RECURSIVE ExpandedFrom(_, _, _)
ExpandedFrom(ctx, text, from) ==
    LET token == CommandTokenizer(text, from)
        slice == SubSeq(text, token.start + 1, token.end)
    IN IF ~token.some THEN SubSeq(text, from + 1, Len(text))
       ELSE SubSeq(text, from + 1, token.start)
                \o (IF token.can_expand_variables THEN Replaced(ctx, slice) ELSE slice)
                \o SubSeq(text, token.end + 1, token.rest)
                \o ExpandedFrom(ctx, text, token.rest)

\* C17: expand_variables returns, and what it leaves is the line with every
\* valid reference inside an expandable token replaced by its value and
\* everything else unchanged: unknown names, names without `(`, references
\* without `)`, invalid arguments, tokens that are not expandable.
C17_ExpandsValidLeavesRest ==
    expanded.passes = 1 =>
        /\ expanded.outcome = "Some"
        /\ command_text = ExpandedFrom(expansion_ctx, expanded.original, 0)

\* has the line a valid reference in an expandable token
RECURSIVE HasValidReference(_, _, _)
HasValidReference(ctx, text, from) ==
    LET token == CommandTokenizer(text, from)
        slice == SubSeq(text, token.start + 1, token.end)
    IN /\ token.some
       /\ \/ /\ token.can_expand_variables
             /\ \E i \in 1..Len(slice), r \in ValidReferences(ctx) :
                    IsPrefix(r.ref, SubSeq(slice, i, Len(slice)))
          \/ HasValidReference(ctx, text, token.rest)

\* C18: for a line with a valid reference in an expandable token, expanding
\* returns, and expanding what it returned returns the same text again.
C18_ExpandingTwiceIsExpandingOnce ==
    (expanded.passes >= 1 /\ HasValidReference(expansion_ctx, expanded.original, 0)) =>
        /\ expanded.outcome = "Some"
        /\ expanded.passes = 2 => command_text = expanded.once

\* C19: when a token starts (after blanks and `@`s) with `{`, n `=` and `{`,
\* and `}`, n `=`, `}` follows somewhere, the token is what stands between
\* the opener and the first such closer, character for character, and the
\* rest of the line starts behind that closer.
C19_BalancedTokenEndsAtFirstCloser ==
    \A k \in 1..Len(tokenizer.tokens) :
        LET token == tokenizer.tokens[k]
            at(i) == command_text[i + 1]
            length == Len(command_text)
            q == CHOOSE i \in token.from..length :
                    /\ i = length \/ at(i) \notin WHITESPACE \cup {"@"}
                    /\ \A j \in token.from..(i - 1) : at(j) \in WHITESPACE \cup {"@"}
            depths == {n \in 0..length :
                        /\ q + n + 1 < length
                        /\ at(q) = "{"
                        /\ \A j \in 1..n : at(q + j) = "="
                        /\ at(q + n + 1) = "{"}
            closers(n) == {c \in (q + n + 2)..(length - n - 2) :
                        /\ at(c) = "}"
                        /\ \A j \in 1..n : at(c + j) = "="
                        /\ at(c + n + 1) = "}"}
        IN \A n \in depths :
            closers(n) # {} =>
                LET c == CHOOSE c \in closers(n) : \A d \in closers(n) : c <= d IN
                /\ token.start = q + n + 2
                /\ token.end = c
                /\ token.slice = SubSeq(command_text, q + n + 3, c)
                /\ token.rest = c + n + 2

\* `cmd {{%}%}=}}` was tokenized: `cmd` and `%}%}=`
C19_Witness ==
    /\ command_text = <<"c", "m", "d", " ", "{", "{", "%", "}", "%", "}", "=", "}", "}">>
    /\ tokenizer.done
    /\ Len(tokenizer.tokens) = 2
    /\ tokenizer.tokens[1].slice = <<"c", "m", "d">>
    /\ tokenizer.tokens[2].slice = <<"%", "}", "%", "}", "=">>

\* the events of bytes that arrive in one piece
RECURSIVE InOnePiece(_)
InOnePiece(bytes) ==
    LET range == try_get_content_range(bytes) IN
    IF bytes = <<>> \/ ~range.some THEN <<>>
    ELSE <<SubSeq(bytes, range.start + 1, range.end)>>
            \o InOnePiece(SubSeq(bytes, range.end + 1, Len(bytes)))

\* the bytes behind the last complete frame of bytes
RECURSIVE Incomplete(_)
Incomplete(bytes) ==
    LET range == try_get_content_range(bytes) IN
    IF bytes = <<>> \/ ~range.some THEN bytes
    ELSE Incomplete(SubSeq(bytes, range.end + 1, Len(bytes)))

\* C20: however the stream was cut into reads, once the events of a read are
\* taken and finish was called, the events produced so far are those the same
\* bytes produce when they arrive in one piece, each complete frame once and
\* in order, and the read buffer holds exactly the bytes of the frame that is
\* not yet complete; when the whole stream has arrived, the events are the
\* bodies of its frames.
C20_ChunksYieldTheSameEvents ==
    ~server_event_iter.alive =>
        /\ produced = InOnePiece(delivered)
        /\ read_buf = Incomplete(delivered)
        /\ stream = <<>> =>
                /\ read_buf = <<>>
                /\ \E bodies \in UNION {[1..n -> Bodies] : n \in 1..MaxFrames} :
                    /\ produced = bodies
                    /\ LET RECURSIVE frames(_)
                           frames(k) == IF k = 0 THEN <<>>
                                        ELSE frames(k - 1) \o Frame(bodies[k])
                       IN delivered = frames(Len(bodies))

\* a read ended inside the body of the second frame, two bytes of a body
\* that holds the end of a header: the first frame was produced, finish was
\* called, and the read buffer keeps the bytes of the second
C20_Witness ==
    /\ ~server_event_iter.alive
    /\ stream = <<"\r", "\n">>
    /\ produced = <<<<"0", "1", "2", "3", "4", "5", "6", "7", "8", "9">>>>
    /\ read_buf = <<"C", "o", "n", "t", "e", "n", "t", "-", "L", "e", "n", "g", "t", "h", ":", " ", "4", "\r", "\n", "\r", "\n", "\r", "\n">>

\* C12: on a fresh buffer, an undo of a committed group of inserts and
\* deletes leaves the content the buffer had before the group, a redo leaves
\* the content it had after the group, and an undo followed by a redo, or a
\* redo followed by an undo, leaves the content as it was before the two.
C12_UndoRedoRestoreContent ==
    /\ \A i \in 1..Len(trail.ops) :
        trail.ops[i].after = trail.contents[IF trail.ops[i].op = "undo"
                                            THEN trail.ops[i].group
                                            ELSE trail.ops[i].group + 1]
    /\ Len(trail.ops) = 2 /\ trail.ops[1].op # trail.ops[2].op
        => trail.ops[2].after = trail.ops[1].before

\* a group of an insert over two lines and a delete that reaches into the
\* inserted text was committed, undone and redone
C12_Witness ==
    /\ Len(trail.ops) = 2
    /\ trail.ops[1].op = "undo" /\ trail.ops[2].op = "redo"
    /\ \E g \in {edit_buffer.history.groups[1]} :
        /\ Len(g) = 2
        /\ g[1].kind = "Insert" /\ g[1].text = <<"X", "\n">>
        /\ g[2].kind = "Delete"
        /\ g[2].range.from.line_index < g[2].range.to.line_index
        /\ PosLeq(g[1].range.from, g[2].range.from)
        /\ trail.ops[1].after # trail.ops[1].before

\* C13: a key of Insert mode that is Esc or Ctrl-c leaves nothing to commit
\* and the editor in Normal mode; any other key leaves the committed groups
\* as they were and its edits with the ones to commit; so once the session
\* was left with Esc or Ctrl-c, the edits of all its keys are one group, the
\* only one.
C13_ExitCommitsOneGroup ==
    /\ [][editor.mode = "Insert" /\ session'.keys # session.keys =>
            IF session'.key \in {"Esc", "Ctrl-c"}
            THEN /\ editor'.mode = "Normal"
                 /\ editor'.history.edits = <<>>
                 /\ editor'.content = editor.content
            ELSE /\ editor'.history.groups = editor.history.groups
                 /\ editor'.history.edits = session'.edits
                 /\ editor.views # <<>> => editor'.mode = "Insert"]_vars
    /\ [](editor.mode = "Normal" /\ session.key \in {"Esc", "Ctrl-c"}
          => editor.history.groups
                = IF session.edits = <<>> THEN <<>> ELSE <<session.edits>>)

\* text was typed at two cursors, characters were deleted, and Ctrl-c left
\* the mode: the four edits are one group
C13_Witness ==
    /\ editor.mode = "Normal"
    /\ session.key = "Ctrl-c"
    /\ editor.history.edits = <<>>
    /\ Len(editor.history.groups) = 1
    /\ \E g \in {editor.history.groups[1]} :
        /\ Len(g) = 4
        /\ g[1].kind = "Insert" /\ g[2].kind = "Insert"
        /\ g[3].kind = "Delete" /\ g[4].kind = "Delete"

\* C21: the ids of the requests are 1, 2, 3, ... in the order they were
\* issued, none is 0 and a notification or a response uses none; a take gave
\* the method that was added with the id if the id was waiting, and none for
\* an id that was taken before or never issued; and what take gives for every
\* id is the method of the request that waits with that id, whatever was
\* added or taken for other ids.
C21_IdsDistinctAndRouted ==
    /\ \A i \in 1..Len(rpc.issued) : rpc.issued[i].id = i
    /\ next_request_id = Len(rpc.issued) + 1
    /\ rpc.taken.method = rpc.taken.expected
    /\ \A id \in 0..(MaxIssued + 1) :
        take(pending_requests, id).method
            = IF \E w \in 1..Len(rpc.waiting) : rpc.waiting[w].id = id
              THEN rpc.waiting[CHOOSE w \in 1..Len(rpc.waiting) : rpc.waiting[w].id = id].method
              ELSE NoMethod

\* three requests were issued and added, the first was taken, so the last
\* took its slot, and the take of the first again gave none
C21_Witness ==
    /\ Len(rpc.issued) = 3
    /\ rpc.issued[1].method # rpc.issued[3].method
    /\ Len(pending_requests) = 2
    /\ pending_requests[1].id = 3
    /\ rpc.taken = [id |-> 1, method |-> NoMethod, expected |-> NoMethod]

\* the lines of a content as one text, a "\n" between two lines
RECURSIVE Flat(_)
Flat(content) ==
    IF Len(content) = 1 THEN content[1]
    ELSE content[1] \o <<"\n">> \o Flat(Tail(content))

\* the edits of a list made at once on a content: the text up to the first
\* range, its new text, the text up to the next range, and so on; edits with
\* the same start in the order of the list
Simultaneous(content, edits) ==
    LET text == Flat(content)
        RECURSIVE offset(_, _)
        offset(p, l) == IF l = p.line_index THEN p.column_byte_index
                        ELSE Len(content[l + 1]) + 1 + offset(p, l + 1)
        start(e) == offset(edits[e].range.start, 0)
        order == CHOOSE f \in Permutations(1..Len(edits)) :
                    \A i, j \in 1..Len(edits) :
                        i < j => \/ start(f[i]) < start(f[j])
                                 \/ start(f[i]) = start(f[j]) /\ f[i] < f[j]
        RECURSIVE build(_, _)
        build(k, at) ==
            IF k > Len(edits) THEN SubSeq(text, at + 1, Len(text))
            ELSE LET e == edits[order[k]]
                     s == Max(at, offset(e.range.start, 0))
                 IN SubSeq(text, at + 1, s) \o e.new_text
                        \o build(k + 1, Max(at, offset(e.range.end, 0)))
    IN build(1, 0)

\* C22: once the edits of a list whose ranges do not overlap are applied,
\* the text of the document is the original text with all the edits made at
\* once, in whatever order the list has them.
C22_EditsApplyAsIfAtOnce ==
    applied.done => Flat(document.content) = Simultaneous(applied.original, text_edits)

\* C23: when a workspace edit was applied, every change of it was reached,
\* and for each CreateFile and RenameFile whose target existed: with
\* overwrite the target was replaced (unless the system refused or the file
\* to rename was missing), without overwrite the target is as it was and the
\* failure was logged exactly when ignoreIfExists is false.
C23_OverwriteOnlyWhenAsked ==
    workspace.applied =>
        /\ Len(workspace.steps) = Len(document_changes)
        /\ \A k \in 1..Len(workspace.steps) :
            LET s == workspace.steps[k] IN
            s.change.kind \in {"create", "rename"} /\ s.before[s.change.uri] # Absent =>
                IF s.change.overwrite
                THEN \/ s.after[s.change.uri]
                            = IF s.change.kind = "create" THEN ""
                              ELSE s.before[s.change.old_uri]
                     \/ s.change.os_error
                     \/ s.change.kind = "rename" /\ s.before[s.change.old_uri] = Absent
                ELSE /\ s.after = s.before
                     /\ s.logged = ~s.change.ignore_if_exists

\* C24: parsing, against the root, the URI displayed for a path relative to
\* that root gives the path again.
C24_ParseOfDisplayIsThePath ==
    uri_output.ours /\ uri_output.parsed # NoPath =>
        uri_output.parsed = components(uri_input.windows, uri_input.path)

\* what the code does: the parsed path is the displayed path without a `.` in
\* front; a path that does not start with `.` comes back as it was.
ParseOfDisplayDropsCurDir ==
    uri_output.ours /\ uri_output.parsed # NoPath =>
        LET shown == components(uri_input.windows, uri_input.path)
        IN  uri_output.parsed = IF shown # <<>> /\ shown[1].kind = "CurDir" THEN Tail(shown) ELSE shown

\* the characters of the texts an input was decoded to
PipedText(texts) == texts[1] \o texts[2]

\* the slots of a collection that are alive
AliveSlots(coll) == {i \in 1..Len(coll) : coll[i].alive}

\* what a step does to the pipe buffers
PipeStep ==
    /\ client_op'.op = "stdin" =>
        LET c == client_op'.client
            b == client_op'.buffer + 1
        IN  /\ client_op'.had = client_manager[c].stdin_buffer_handle
            /\ client_manager'[c].stdin_buffer_handle = client_op'.buffer
            /\ editor_buffers'[b].alive
            /\ editor_buffers'[b].path = PipePath(c)
            /\ ~editor_buffers'[b].is_file
            /\ IF client_op'.had = NoHandle
               THEN /\ AliveSlots(editor_buffers') = AliveSlots(editor_buffers) \cup {b}
                    /\ b \notin AliveSlots(editor_buffers)
                    /\ editor_buffers'[b].content = PipedText(client_op'.texts)
                    /\ client_manager'[c].buffer_view_handle # NoHandle
                    /\ LET v == editor_buffer_views'[client_manager'[c].buffer_view_handle + 1]
                       IN  v.alive /\ v.client_handle = c /\ v.buffer_handle = client_op'.buffer
               ELSE /\ client_op'.buffer = client_op'.had
                    /\ AliveSlots(editor_buffers') = AliveSlots(editor_buffers)
                    /\ editor_buffers'[b].content = editor_buffers[b].content \o PipedText(client_op'.texts)
            /\ \A i \in 1..Len(editor_buffers) : i # b => editor_buffers'[i] = editor_buffers[i]
    /\ client_op'.op = "close" =>
        \A c \in ClientIndexes : client_manager'[c].stdin_buffer_handle # client_op'.buffer
    /\ client_op'.op \notin {"stdin", "close", "left"} =>
        \A c \in ClientIndexes :
            client_manager'[c].stdin_buffer_handle = client_manager[c].stdin_buffer_handle

\* C25: a piped input for a client without a stdin buffer makes exactly one
\* buffer, named pipe.<client index>, not a file, shown in that client and
\* recorded as its stdin buffer, holding the decoded input; a later input is
\* appended at the end of that same buffer and makes no buffer; once that
\* buffer is closed the client has no stdin buffer, so the next input makes
\* a new one.
C25_StdinGoesToOnePipeBuffer == [][PipeStep]_vars

\* C25: a client whose pipe buffer was closed piped again, which made a new
\* pipe buffer in the freed slot, and its next input, the second byte of a
\* character, was appended to that buffer
C25_Witness ==
    /\ client_op.op = "stdin"
    /\ client_op.client \in client_op.closed
    /\ client_op.had = 0
    /\ client_op.texts = <<<<"LT">>, <<>>>>
    /\ editor_buffers[1].content = <<"a", "LT">>
    /\ editor_buffers[1].path = PipePath(client_op.client)
    /\ client_manager[client_op.client].stdin_buffer_handle = 0

\* what a step does to the collection of views
ViewStep ==
    LET before == editor_buffer_views
        after == editor_buffer_views'
        pair(v) == <<v.client_handle, v.buffer_handle>>
        op == client_op'
        shown == {i \in AliveSlots(before) : pair(before[i]) = <<op.client, op.buffer>>}
        added == \/ op.op = "stdin" /\ op.had = NoHandle
                 \/ op.op = "open" /\ shown = {}
        removed(v) == \/ op.op = "left" /\ v.client_handle = op.client
                      \/ op.op = "close" /\ v.buffer_handle = op.buffer
    IN  /\ Len(after) >= Len(before)
        /\ \A i \in 1..Len(after) : after[i].handle = i - 1
        /\ added =>
            /\ op.view + 1 \in AliveSlots(after)
            /\ pair(after[op.view + 1]) = <<op.client, op.buffer>>
            /\ IF DeadSlots(before) # {}
               THEN /\ op.view + 1 \in DeadSlots(before)
                    /\ \A d \in DeadSlots(before) : op.view + 1 <= d
                    /\ Len(after) = Len(before)
               ELSE /\ op.view = Len(before)
                    /\ Len(after) = Len(before) + 1
        /\ (op.op = "open" /\ shown # {}) => (op.view + 1 \in shown /\ after = before)
        /\ \A i \in 1..Len(before) :
            IF before[i].alive /\ removed(before[i])
            THEN ~after[i].alive
            ELSE (added /\ i = op.view + 1) \/ after[i] = before[i]

\* C29: add_new takes the lowest slot whose view is not alive, or a new slot
\* when every view is alive; slot i carries handle i; a view that is alive
\* keeps its client and buffer and stays alive until it is removed with its
\* client or with its buffer, and a removal changes no other view.
C29_SlotsAndHandles == [][ViewStep]_vars

\* C29: with the views of slots 0 and 1 removed with their buffer and the
\* view of slot 2 alive, a new view took slot 0
C29_Witness ==
    /\ client_op.op = "stdin"
    /\ client_op.had = NoHandle
    /\ client_op.view = 0
    /\ Len(editor_buffer_views) = 3
    /\ editor_buffer_views[1].alive
    /\ ~editor_buffer_views[2].alive
    /\ editor_buffer_views[3].alive
    /\ editor_buffer_views[3].client_handle # editor_buffer_views[1].client_handle

\* the height update_view works with, and the scroll nearest to the one
\* before that has the cursor inside the window of that height
WindowHeight == saturating_sub(saturating_sub(scroll_client.viewport_size[2], 1), scroll_op.margin_bottom)

MinimalShift(cursor_line) ==
    IF cursor_line < scroll_op.before THEN cursor_line
    ELSE IF cursor_line >= scroll_op.before + WindowHeight THEN cursor_line + 1 - WindowHeight
    ELSE scroll_op.before

\* C26: update_view jumps so that the main cursor is at half the height when
\* its visual line is outside the window [scroll, scroll + height) enlarged
\* by half the height on each side, and otherwise shifts the scroll by the
\* least amount that brings the cursor into the window.
C26_JumpOutsideHalfHeight ==
    scroll_op.op = "update_view" /\ has_ui(scroll_client) =>
        LET cursor_line == find_main_cursor_height(scroll_client)
            half_height == WindowHeight \div 2
        IN  IF \/ cursor_line < saturating_sub(scroll_op.before, half_height)
               \/ cursor_line >= scroll_op.before + WindowHeight + half_height
            THEN scroll_client.scroll \in {saturating_sub(cursor_line, half_height), cursor_line + 1 - half_height}
            ELSE scroll_client.scroll = MinimalShift(cursor_line)

\* C26 as the code has it: the window is enlarged by a quarter of the height
\* (half of the half, rounded down) on each side. Outside it the scroll jumps:
\* above, to the cursor line less half the height (0 at least); below, to the
\* cursor line plus one less half the height. Inside it, the scroll shifts by
\* the least amount that brings the cursor into the window. Without a UI
\* nothing changes.
C26_JumpOutsideQuarterHeight ==
    scroll_op.op = "update_view" =>
        IF ~has_ui(scroll_client) THEN scroll_client.scroll = scroll_op.before
        ELSE LET cursor_line == find_main_cursor_height(scroll_client)
                 half_height == WindowHeight \div 2
                 quarter_height == half_height \div 2
             IN  IF cursor_line < saturating_sub(scroll_op.before, quarter_height)
                 THEN scroll_client.scroll = saturating_sub(cursor_line, half_height)
                 ELSE IF cursor_line >= scroll_op.before + WindowHeight + quarter_height
                 THEN scroll_client.scroll = cursor_line + 1 - half_height
                 ELSE scroll_client.scroll = MinimalShift(cursor_line)

\* C26: in a window of height 4 at scroll 7 the cursor line 5 is more than a
\* quarter and not more than half the height above the window, and the scroll
\* jumped to 3
C26_Witness ==
    /\ scroll_op.op = "update_view"
    /\ has_ui(scroll_client)
    /\ WindowHeight = 4
    /\ scroll_op.before = 7
    /\ find_main_cursor_height(scroll_client) = 5
    /\ scroll_client.scroll = 3

\* C27: after set_view_anchor on a client with a UI the cursor line less the
\* scroll is 0 for Top, half the height for Center and the height less one
\* for Bottom, the height being the rows less one.
C27_AnchorPlacesCursor ==
    scroll_op.op = "set_view_anchor" /\ has_ui(scroll_client) =>
        LET rows_height == saturating_sub(scroll_client.viewport_size[2], 1)
        IN  find_main_cursor_height(scroll_client) - scroll_client.scroll
                = CASE scroll_op.anchor = "Top" -> 0
                    [] scroll_op.anchor = "Center" -> rows_height \div 2
                    [] scroll_op.anchor = "Bottom" -> rows_height - 1

\* the place n steps after (n < 0: before) a place of the text, a character
\* or a line break being one step, without leaving the text
PlaceAfter(content, p, n) ==
    LET places == ColumnPlaces(content)
        k == CHOOSE i \in 1..Len(places) : places[i] = p
    IN  places[Max(1, Min(Len(places), k + n))]

RECURSIVE ColumnsOneByOne(_, _, _, _)
ColumnsOneByOne(content, p, movement, n) ==
    IF n = 0 THEN p
    ELSE ColumnsOneByOne(content,
                         IF movement = "ColumnsForward" THEN columns_forward(content, p, 1)
                         ELSE columns_backward(content, p, 1),
                         movement, n - 1)

\* C28: ColumnsForward(n) puts the cursor n steps further, a character, of
\* one byte or more, and a line break being one step each, and stops at the
\* end of the last line; ColumnsBackward(n) moves back the same way and stops
\* at (0,0); moving by n is moving n times by 1; in `ab/c e/efgh/i k/lm` from
\* (2,2) ColumnsForward(3) gives (3,0) and ColumnsForward(7) gives (4,0).
C28_ColumnsCountCharsAndBreaks ==
    column_move.movement # "none" =>
        LET content == column_cursor.content
            forward == column_move.movement = "ColumnsForward"
        IN  /\ column_cursor.position
                    = PlaceAfter(content, column_move.from, IF forward THEN column_move.n ELSE 0 - column_move.n)
            /\ column_cursor.position
                    = ColumnsOneByOne(content, column_move.from, column_move.movement, column_move.n)
            /\ (/\ forward
                /\ Len(content) = 5
                /\ column_move.from = [line_index |-> 2, column_byte_index |-> 2])
                    => /\ column_move.n = 3 => column_cursor.position = [line_index |-> 3, column_byte_index |-> 0]
                       /\ column_move.n = 7 => column_cursor.position = [line_index |-> 4, column_byte_index |-> 0]

\* C28: three steps forward from the start of `Ea//aE` crossed a character of
\* two bytes and a line break and reached the empty line
C28_Witness ==
    /\ column_move = [movement |-> "ColumnsForward", n |-> 3, from |-> [line_index |-> 0, column_byte_index |-> 0]]
    /\ column_cursor.content = <<<<"E", "a">>, <<>>, <<"a", "E">>>>
    /\ column_cursor.position = [line_index |-> 1, column_byte_index |-> 0]

\* C30: path_to_language_id gives, for an extension that is in its table when
\* compared without regard to case, the language id of the table (`rs` and
\* `RS` rust, `litcoffee` coffeescript, `dockerfile` dockerfile), for an
\* extension that is not in the table the extension itself, and the empty
\* string for a path without extension.
C30_LanguageIdOfExtension ==
    language.id # NoLanguage =>
        LET extension == path_extension(language.path)
            lower == [k \in 1..Len(extension) |-> to_ascii_lowercase(extension[k])]
            rows == {k \in 1..Len(LanguageTable) : LanguageTable[k].extension = lower}
        IN  IF extension = NoExtension THEN language.id = <<>>
            ELSE IF rows # {} THEN \A k \in rows : language.id = LanguageTable[k].id
            ELSE language.id = extension

\* what the code does: C30 for the extensions of at most 8 bytes; a longer
\* extension is returned as it is
LanguageIdOfShortExtension ==
    language.id # NoLanguage =>
        LET extension == path_extension(language.path)
        IN  IF extension # NoExtension /\ Len(extension) > LANGUAGE_ID_BUF_LEN
            THEN language.id = extension
            ELSE language.id = path_to_language_id_any_len(language.path)

\* ======================================================================
\* Further claims about the event loop
\* ======================================================================

\* the free client slots, lowest index first
FreeSlotsInOrder(conns) ==
    SelectSeq([k \in 1..MAX_CLIENT_COUNT |-> k - 1], LAMBDA i : conns[i] = NoConnection)

\* what a listener event with n pending connections must do
AcceptStep ==
    LET n == Head(triggered).data
        free == FreeSlotsInOrder(client_connections)
        k == Min(n, Len(free))
    IN  /\ \A j \in 1..k : client_connections'[free[j]] = next_conn + j
        /\ \A i \in ClientSlots :
                client_connections[i] # NoConnection =>
                    client_connections'[i] = client_connections[i]
        /\ \A j \in (k + 1)..Len(free) : client_connections'[free[j]] = NoConnection
        /\ events' = events \o [j \in 1..k |-> PlatformEvent("ConnectionOpen", free[j], 0)]
        /\ \A c \in (next_conn + k + 1)..(next_conn + n) :
                \A i \in ClientSlots : client_connections'[i] # c

ListenerStep ==
    /\ (pc = "events" /\ Head(triggered).kind = "Read" /\ Head(triggered).index = 0)
            => AcceptStep
    /\ Cardinality({i \in ClientSlots : client_connections'[i] # NoConnection})
            <= MAX_CLIENT_COUNT
    /\ \A i, j \in ClientSlots :
            (i # j /\ client_connections'[i] # NoConnection)
                => client_connections'[i] # client_connections'[j]

\* C31: each accepted connection goes to the lowest free client slot and is
\* announced by exactly one ConnectionOpen with that slot's handle; no more
\* than MAX_CLIENT_COUNT connections are open, no two of them share a slot,
\* and a connection accepted while every slot is taken is dropped silently.
C31_AcceptFillsLowestFreeSlot == [][ListenerStep]_vars

\* two connections were accepted at once with one free slot: the first took
\* the slot and the second was dropped
C31_Witness ==
    /\ last.op = "accept"
    /\ last.index = 2
    /\ \A i \in ClientSlots : client_connections[i] \notin {NoConnection, next_conn}
    /\ \E i \in ClientSlots : client_connections[i] = next_conn - 1
    /\ events # <<>>
    /\ events[Len(events)] = PlatformEvent("ConnectionOpen",
            CHOOSE i \in ClientSlots : client_connections[i] = next_conn - 1, 0)

\* a slot that was free holds a connection after the step
Reused(i) ==
    /\ client_connections[i] = NoConnection
    /\ client_connections'[i] # NoConnection

WriteStep ==
    /\ \A c \in 1..MaxConns : IsPrefix(sent'[c], requested'[c])
    /\ \A i \in ClientSlots : Reused(i) => client_write_queue'[i] = <<>>

\* C32: the bytes a connection is sent are bytes that WriteToClient enqueued
\* for that connection, in order; a connection accepted into a slot that was
\* freed starts with an empty queue, so it is sent nothing that was queued
\* for the connection before it.
C32_BytesGoToTheirConnection == [][WriteStep]_vars

\* the events a step appends to the batch handed to the application
NewEvents ==
    IF IsPrefix(events, events')
    THEN [k \in 1..(Len(events') - Len(events)) |-> events'[Len(events) + k]]
    ELSE <<>>

IsOpen(conns, handle) == conns[handle] # NoConnection

ConnectionEventStep ==
    \A k \in 1..Len(NewEvents) :
        LET e == NewEvents[k] IN
        /\ e.kind = "ConnectionOpen" =>
                ~IsOpen(client_connections, e.handle) /\ IsOpen(client_connections', e.handle)
        /\ e.kind = "ConnectionClose" =>
                IsOpen(client_connections, e.handle) /\ ~IsOpen(client_connections', e.handle)
        /\ e.kind = "ConnectionOutput" =>
                IsOpen(client_connections, e.handle) /\ IsOpen(client_connections', e.handle)

\* C33: for every client handle ConnectionOpen and ConnectionClose alternate,
\* starting with ConnectionOpen: a ConnectionOpen is emitted only for a handle
\* that is closed and opens it, a ConnectionClose only for a handle that is
\* open and closes it (CloseClient for a closed client emits nothing), and a
\* ConnectionOutput only for a handle that is open.
C33_OpenAndCloseAlternate == [][ConnectionEventStep]_vars

ProcessRequests == {"WriteToProcess", "CloseProcessInput", "KillProcess"}

\* the process in the slot was spawned in this drain: its ProcessSpawned is
\* still waiting to be delivered, so no request can have been made for it
Unannounced(handle) ==
    /\ processes[handle] # NONE_PROCESS
    /\ PlatformEvent("ProcessSpawned", handle, processes[handle].tag) \in Range(events)

ProcessRequestStep ==
    (/\ pc = "requests"
     /\ Head(requests).kind \in ProcessRequests
     /\ Unannounced(Head(requests).handle))
        => /\ processes' = processes
           /\ events' = events
           /\ kqueue' = kqueue

\* C34: WriteToProcess, CloseProcessInput and KillProcess act only on the
\* process whose ProcessSpawned announced their handle: a request whose
\* handle is stale leaves a process that was spawned into the same slot later
\* in the drain untouched.
C34_StaleHandleTouchesNoOtherProcess == [][ProcessRequestStep]_vars

\* ======================================================================
\* Further claims about the expansion of variables
\* ======================================================================

\* C35: expand_variables returns for every line: each round of the loop over
\* the variables of a token moves on in the token, also when the `@` is the
\* last character of the line.
C35_ExpansionTerminates ==
    expanded.passes >= 1 => expanded.outcome # "hang"

\* C36: in expand_variables the place where the scan of a token goes on
\* never lies behind the end of the token, so the token is always sliced
\* with its start before its end, also when the `)` that closes the
\* arguments stands behind the token.
C36_ScanStaysInsideToken ==
    expanded.passes >= 1 => expanded.outcome # "panic"

\* ======================================================================
\* Claims about the aliases
\* ======================================================================

\* the ranges of the aliases follow one another from the start of the arena
\* to its end
RangesCoverArena(collection) ==
    LET aliases == collection.aliases
        end(k) == aliases[k].start + aliases[k].from_len + aliases[k].to_len
    IN  /\ aliases = <<>> => collection.texts = <<>>
        /\ aliases # <<>> =>
                /\ aliases[1].start = 0
                /\ end(Len(aliases)) = Len(collection.texts)
        /\ \A k \in 1..(Len(aliases) - 1) : aliases[k + 1].start = end(k)

\* C37: after any sequence of AliasCollection::add no two aliases have the
\* same name, find gives for every name the target it was last added with
\* and nothing for a name never added, and the ranges of the aliases are
\* consecutive and cover the text arena exactly.
C37_AliasesAreUniqueAndCoverTheArena ==
    /\ \A i, j \in 1..Len(alias_collection.aliases) :
            i # j => alias_from(alias_collection.aliases[i], alias_collection.texts)
                        # alias_from(alias_collection.aliases[j], alias_collection.texts)
    /\ \A n \in AliasNames : alias_find(alias_collection, n) = alias_op.targets[n]
    /\ RangesCoverArena(alias_collection)

\* the first of three aliases was added again with another target
C37_Witness ==
    /\ alias_op.replaced = 1
    /\ Len(alias_collection.aliases) = 3
    /\ alias_op.count = MaxAliasAdds
    /\ \A k \in 1..3 : alias_collection.aliases[k].to_len > 0

\* ======================================================================
\* Further claims about the cursors and the view of a client
\* ======================================================================

\* every cursor of the first view is without selection
AnchorsFollow == \A i \in 1..Len(views[1].cursors) :
                    views[1].cursors[i].anchor = views[1].cursors[i].position

\* C38: after move_cursors with PositionAndAnchor the anchor of every cursor
\* is its position, whatever the movement and the count, 0 included.
C38_AnchorFollowsPosition ==
    (edited.kind = "move" /\ edited.by.kind = "PositionAndAnchor") => AnchorsFollow

\* C38 for every movement but ColumnsBackward by 0 columns, which returns
\* before the anchors are set
AnchorFollowsPositionUnlessReturned ==
    (/\ edited.kind = "move"
     /\ edited.by.kind = "PositionAndAnchor"
     /\ ~(edited.by.movement = "ColumnsBackward" /\ edited.by.n = 0)) => AnchorsFollow

\* the main cursor is on a line of the window
CursorInWindow(height) ==
    /\ scroll_client.scroll <= find_main_cursor_height(scroll_client)
    /\ find_main_cursor_height(scroll_client) < scroll_client.scroll + height

\* C39: after update_view on a client with a UI whose window has at least
\* one row, the line of the main cursor is inside the window:
\* scroll <= cursor line < scroll + height, whatever the scroll before, the
\* cursor and the height.
C39_CursorInsideWindow ==
    (scroll_op.op = "update_view" /\ has_ui(scroll_client) /\ WindowHeight >= 1)
        => CursorInWindow(WindowHeight)

\* C39 for windows of two rows and more; in a window of one row half the
\* height is 0 and the jump below the window puts the scroll behind the cursor
CursorInsideWindowOfTwoRows ==
    (scroll_op.op = "update_view" /\ has_ui(scroll_client) /\ WindowHeight >= 2)
        => CursorInWindow(WindowHeight)

\* ======================================================================
\* Claims about the key maps
\* ======================================================================

\* the maps of the mode whose from is the pressed keys, and those of which
\* the pressed keys are a proper prefix
EqualMaps ==
    {i \in 1..Len(keymaps[key_match.mode]) :
        keymaps[key_match.mode][i].from = key_match.keys}

LongerMaps ==
    {i \in 1..Len(keymaps[key_match.mode]) :
        /\ Len(key_match.keys) < Len(keymaps[key_match.mode][i].from)
        /\ IsPrefix(key_match.keys, keymaps[key_match.mode][i].from)}

MatchesAsSpecified ==
    /\ EqualMaps # {} =>
            \E i \in EqualMaps :
                key_match.result = ReplaceWith(keymaps[key_match.mode][i].to)
    /\ (EqualMaps = {} /\ LongerMaps # {}) => key_match.result = MatchPrefix
    /\ (EqualMaps = {} /\ LongerMaps = {}) => key_match.result = MatchNone

\* C40: matches gives ReplaceWith(to) when the pressed keys are the from of
\* a map of the mode, Prefix only when they are a proper prefix of the from
\* of one, and None otherwise, also when the pressed keys are longer than
\* every map they agree with.
C40_MatchesExactPrefixOrNone ==
    key_match.calls = 1 => MatchesAsSpecified

\* C40 when no map of the mode is a proper prefix of the pressed keys
MatchesUnlessKeysAreLonger ==
    (/\ key_match.calls = 1
     /\ \A i \in 1..Len(keymaps[key_match.mode]) :
            LET from == keymaps[key_match.mode][i].from IN
            ~(Len(from) < Len(key_match.keys) /\ IsPrefix(from, key_match.keys)))
        => MatchesAsSpecified

====
